---- MODULE Spec2Model ----
(***************************************************************************)
(* Model of clancey's incremental indexing pipeline (src/src/db.ts), the   *)
(* control flows that invoke it (main, the index_conversations tool       *)
(* handler, the watcher's debounce timer) and the persisted LanceDB        *)
(* tables it writes.  Every await of the source is a step boundary: other  *)
(* flows of the same process may run there and the process may be killed   *)
(* there.                                                                  *)
(***************************************************************************)
EXTENDS Integers, Sequences, FiniteSets, Bags, TLC

\* ---------------------------------------------------------------- bounds
MaxMtime == 2      \* modification times of a file range over 1..MaxMtime
MaxChunks == 1     \* a file yields 0..MaxChunks chunks (0: no qualifying message)
MaxEvents == 2     \* environment events (tool call, timer, edit, unlink, kill)

\* ------------------------------------------------------------ the universe
\* listConversationFiles returns the files in a fixed directory order.
FileOrder == <<"a.jsonl", "b.jsonl">>
Files == {FileOrder[j] : j \in 1..Len(FileOrder)}

\* The three places that start an indexing operation.
Runs == {"startup", "tool", "watch"}
FullRuns == {"startup", "tool"}

\* path.basename(filePath, ".jsonl")
SessionId(f) == f

Gone == [mtime |-> 0, n |-> 0]
NoConv == [ver |-> 0, n |-> 0, lastModified |-> 0]
NoMap == [f \in Files |-> 0]

VARIABLES
  fs,           \* file -> [mtime, n]: the log files on disk (mtime 0: no such file)
  tableExists,  \* the "conversations" table exists in the store
  table,        \* its rows, a bag of batches [file, sessionId, ver, n]
  metaExists,   \* the "metadata" table exists in the store
  meta,         \* its rows, a set of [file, mtime]
  up,           \* the process is running and db.init() has returned
  tableHandle,  \* this.table is non-null
  indexedFiles, \* this.indexedFiles, file -> mtime (0: no entry)
  runs,         \* run -> the frame of that indexAll/indexFile call
  results,      \* rows seen by the last search
  events,       \* number of environment events so far
  wrote,        \* history: file -> newest content version whose add completed
  completed,    \* history: file -> checkpoint of its last completed per-file step
  emptySeen,    \* history: file -> mtime at which this process read it as empty
  crashed,      \* history: the process has been killed at least once
  disturbed,    \* history: something besides the startup run happened since init
  mark,         \* history: file -> 1 modified during a full run, 2 and indexFile called for it since
  call,         \* the last call made on a ConversationDB before init(), and its outcome
  arg,          \* the input handed to a pure function
  res,          \* what the function returned for it
  watcher,      \* ConversationWatcher.watcher is non-null (subscribed)
  debounceTimers, \* ConversationWatcher.debounceTimers, path -> timer id (0: no entry)
  armed,        \* the timers the runtime holds, a set of [id, path, left]
  nextId,       \* the id the next setTimeout returns
  inflight,     \* path -> number of indexFile calls of the watcher not yet settled
  watch         \* history of the watch loop (see WatchHistory)

db == <<fs, tableExists, table, metaExists, meta, up, tableHandle,
        indexedFiles, runs, results, events, wrote, completed, emptySeen,
        crashed, disturbed, mark>>

\* the state of the harnesses around the indexing model
pure == <<arg, res>>
loop == <<watcher, debounceTimers, armed, nextId, inflight, watch>>
ext == <<call, pure, loop>>

vars == <<db, ext>>

disk == <<fs, tableExists, table, metaExists, meta>>
hist == <<wrote, completed, emptySeen, crashed, disturbed>>

\* ------------------------------------------------------------- run frames
IdleRun ==
  [pc |-> "idle", kind |-> "all", force |-> FALSE, files |-> <<>>,
   queue |-> <<>>, i |-> 0, conv |-> NoConv, snap |-> {},
   processed |-> 0, added |-> 0, outcome |-> "none", cause |-> "none"]

Free(r) == runs[r].pc \in {"idle", "done"}

\* filesToIndex[i]
Cur(rec) == rec.queue[rec.i]

\* listConversationFiles: the .jsonl files that exist, in directory order
RECURSIVE Listing(_, _)
Listing(order, f) ==
  IF order = <<>> THEN <<>>
  ELSE IF f[Head(order)].mtime # 0
       THEN <<Head(order)>> \o Listing(Tail(order), f)
       ELSE Listing(Tail(order), f)

\* the skip test of indexAll's enumeration loop
ShouldSkip(force, lastIndexed, mtimeMs) ==
  ~force /\ lastIndexed # 0 /\ lastIndexed >= mtimeMs

\* end of the enumeration loop: nothing to index returns {0, 0}
\* the frame of a call that has settled: only what the caller receives
Settled(rec, how) ==
  [IdleRun EXCEPT !.pc = "done", !.kind = rec.kind, !.outcome = how,
                  !.processed = rec.processed, !.added = rec.added,
                  !.cause = rec.cause]

\* end of the enumeration loop: nothing to index returns {0, 0}
AfterEnum(rec) ==
  IF rec.files # <<>> THEN rec
  ELSE IF rec.queue = <<>>
       THEN Settled(rec, "returned")
       ELSE [rec EXCEPT !.pc = "parse", !.i = 1]

\* db.indexAll(force) up to the first stat
StartAll(force) ==
  AfterEnum([IdleRun EXCEPT !.pc = "stat", !.kind = "all", !.force = force,
                            !.files = Listing(FileOrder, fs)])

\* db.indexFile(filePath) up to parseConversation
StartFile(f) ==
  [IdleRun EXCEPT !.pc = "parse", !.kind = "file", !.i = 1,
                  !.queue = <<[file |-> f, mtime |-> 0]>>]

\* the loop's i++ / the function's return after one file has been handled
Advance(rec, why, nAdded) ==
  LET base == [rec EXCEPT !.processed = @ + 1, !.added = @ + nAdded,
                          !.cause = why, !.conv = NoConv, !.snap = {}]
  IN IF rec.kind = "all" /\ rec.i < Len(rec.queue)
     THEN [base EXCEPT !.pc = "parse", !.i = @ + 1]
     ELSE Settled(base, "returned")

\* the catch block of the per-file try: logError, processed++ (indexAll) or
\* return {processed: 1, added: 0} (indexFile)
Caught(rec, why) == Advance(rec, why, 0)

\* the value indexedFiles.set stores: the mtime captured during enumeration
\* (indexAll) or conversation.lastModified (indexFile)
CheckpointMtimeRestat(rec, onDisk) == onDisk[Cur(rec).file].mtime

CheckpointMtime(rec, onDisk) ==
  IF rec.kind = "all" THEN Cur(rec).mtime ELSE rec.conv.lastModified

\* Array.from(this.indexedFiles.entries()) in saveIndexedFiles
Entries(map) == {[file |-> x, mtime |-> map[x]] : x \in {y \in Files : map[y] # 0}}

\* the records built from the chunks of one parse
Batch(rec) ==
  [file |-> Cur(rec).file, sessionId |-> SessionId(Cur(rec).file),
   ver |-> rec.conv.ver, n |-> rec.conv.n]

\* table.delete(`"sessionId" = '...'`)
DeleteNothing(t, sid) == t

DeleteSession(t, sid) ==
  [b \in {x \in DOMAIN t : x.sessionId # sid} |-> t[b]]

\* loadIndexedFiles: rows are applied in the order the query returns them,
\* which the store does not fix; the last row of a file wins
LoadChoicesNone == {NoMap}

LoadChoices ==
  {m \in [Files -> 0..MaxMtime] :
     \A f \in Files :
        IF \E row \in meta : row.file = f
        THEN [file |-> f, mtime |-> m[f]] \in meta
        ELSE m[f] = 0}

TypeOK ==
  /\ fs \in [Files -> [mtime : 0..MaxMtime, n : 0..MaxChunks]]
  /\ tableExists \in BOOLEAN /\ metaExists \in BOOLEAN
  /\ up \in BOOLEAN /\ tableHandle \in BOOLEAN
  /\ indexedFiles \in [Files -> 0..MaxMtime]
  /\ events \in 0..MaxEvents
  /\ DOMAIN runs = Runs

\* ------------------------------------------------- the watch loop's universe
\* watched paths, as their name and the dot-suffixes that follow it
WatchPaths == {<<"a", ".jsonl">>, <<"b", ".jsonl">>, <<"a", ".jsonl", ".bak">>}

\* setTimeout(..., 3000), in seconds
DebounceDelay == 3

NoCall == [op |-> "none", outcome |-> "none"]
NoArg == [fn |-> "none"]
NoRes == [fn |-> "none"]
NoTimers == [p \in WatchPaths |-> 0]

\* what the history of the watch loop records, per path and in total
WatchHistory ==
  [events |-> 0,        \* change events and stop() calls so far
   started |-> FALSE,   \* start() has subscribed at least once
   since |-> [p \in WatchPaths |-> DebounceDelay],  \* seconds since the last event
   bursts |-> NoTimers, \* events that came DebounceDelay or more after the last
   merged |-> NoTimers, \* events that found no pending timer for their path
   rearmed |-> NoTimers, \* events that cancelled a pending timer
   fires |-> NoTimers,  \* indexFile calls started by a timer
   cancelled |-> NoTimers, \* pending timers cleared by stop()
   ignored |-> 0,       \* events dropped by the extension test
   stops |-> 0,         \* stop() calls
   stopId |-> 0,        \* nextId at the last stop()
   errors |-> 0,        \* indexFile calls that ended in an error
   errorId |-> 0,       \* nextId at the last such error
   afterError |-> FALSE]  \* a timer armed after an error has fired

\* a ConversationDB and a ConversationWatcher that nothing has called yet
ExtIdle ==
  /\ call = NoCall
  /\ arg = NoArg /\ res = NoRes
  /\ watcher = FALSE
  /\ debounceTimers = NoTimers
  /\ armed = {}
  /\ nextId = 1
  /\ inflight = NoTimers
  /\ watch = WatchHistory

DbInit ==
  /\ fs \in [Files -> [mtime : {1}, n : 0..MaxChunks]]
  /\ tableExists = FALSE /\ table = EmptyBag
  /\ metaExists = FALSE /\ meta = {}
  /\ up = FALSE /\ tableHandle = FALSE
  /\ indexedFiles = NoMap
  /\ runs = [r \in Runs |-> IdleRun]
  /\ results = EmptyBag
  /\ events = 0
  /\ wrote = NoMap /\ completed = NoMap /\ emptySeen = NoMap
  /\ crashed = FALSE /\ disturbed = FALSE
  /\ mark = NoMap

Init == DbInit /\ ExtIdle

\* ---------------------------------------------------------------- process
\* main(): await db.init(), connect, watcher.start(), then db.indexAll(false)
\* is started and left running in the background.
Main ==
  /\ ~up
  /\ up' = TRUE
  /\ tableHandle' = tableExists
  /\ \E m \in LoadChoices :
       indexedFiles' = IF tableExists /\ metaExists THEN m ELSE NoMap
  /\ runs' = [runs EXCEPT !["startup"] = StartAll(FALSE)]
  /\ disturbed' = FALSE
  /\ UNCHANGED <<disk, results, events, wrote, completed, emptySeen, crashed>>
  /\ UNCHANGED mark
  /\ UNCHANGED ext

\* the process is killed: memory is lost, the store keeps what was written
Crash ==
  /\ up /\ events < MaxEvents
  /\ up' = FALSE /\ tableHandle' = FALSE
  /\ indexedFiles' = NoMap
  /\ runs' = [r \in Runs |-> IdleRun]
  /\ results' = EmptyBag
  /\ emptySeen' = NoMap
  /\ crashed' = TRUE
  /\ events' = events + 1
  /\ UNCHANGED <<disk, wrote, completed, disturbed>>
  /\ mark' = NoMap
  /\ UNCHANGED ext

\* CallToolRequestSchema handler, case "index_conversations"
ToolCall ==
  /\ up /\ Free("tool") /\ events < MaxEvents
  /\ \E force \in BOOLEAN :
       runs' = [runs EXCEPT !["tool"] = StartAll(force)]
  /\ disturbed' = TRUE
  /\ events' = events + 1
  /\ UNCHANGED <<disk, up, tableHandle, indexedFiles, results, wrote,
                 completed, emptySeen, crashed>>
  /\ UNCHANGED mark
  /\ UNCHANGED ext

\* the debounce timer of a path elapses: db.indexFile(filePath)
WatchFire ==
  /\ up /\ Free("watch") /\ events < MaxEvents
  /\ \E f \in Files :
       /\ runs' = [runs EXCEPT !["watch"] = StartFile(f)]
       /\ mark' = [mark EXCEPT ![f] = IF @ = 1 THEN 2 ELSE @]
  /\ disturbed' = TRUE
  /\ events' = events + 1
  /\ UNCHANGED <<disk, up, tableHandle, indexedFiles, results, wrote,
                 completed, emptySeen, crashed>>
  /\ UNCHANGED ext

\* the assistant appends to a log file
Modify ==
  /\ events < MaxEvents
  /\ \E f \in Files, k \in 0..MaxChunks :
       /\ fs[f].mtime # 0 /\ fs[f].mtime < MaxMtime
       /\ fs' = [fs EXCEPT ![f] = [mtime |-> fs[f].mtime + 1, n |-> k]]
       /\ mark' = [mark EXCEPT ![f] = IF up /\ \E r \in FullRuns : ~Free(r) THEN 1 ELSE 0]
  /\ events' = events + 1
  /\ disturbed' = TRUE
  /\ UNCHANGED <<tableExists, table, metaExists, meta, up, tableHandle,
                 indexedFiles, runs, results, wrote, completed, emptySeen,
                 crashed>>
  /\ UNCHANGED ext

\* a log file is deleted or becomes unreadable
Remove ==
  /\ events < MaxEvents
  /\ \E f \in Files :
       /\ fs[f].mtime # 0
       /\ fs' = [fs EXCEPT ![f] = Gone]
       /\ mark' = [mark EXCEPT ![f] = 0]
  /\ events' = events + 1
  /\ disturbed' = TRUE
  /\ UNCHANGED <<tableExists, table, metaExists, meta, up, tableHandle,
                 indexedFiles, runs, results, wrote, completed, emptySeen,
                 crashed>>
  /\ UNCHANGED ext

\* ------------------------------------------------------ indexAll / indexFile
\* one iteration of the enumeration loop: stat, skip test, push
Stat(r) ==
  /\ up /\ runs[r].pc = "stat"
  /\ LET rec == runs[r]
         f == Head(rec.files)
     IN runs' = [runs EXCEPT ![r] =
          IF fs[f].mtime = 0
          THEN \* stat rejects outside the per-file try: indexAll rejects
               Settled([rec EXCEPT !.cause = "missing"], "threw")
          ELSE AfterEnum([rec EXCEPT
                 !.files = Tail(@),
                 !.queue = IF ShouldSkip(rec.force, indexedFiles[f], fs[f].mtime)
                           THEN @
                           ELSE Append(@, [file |-> f, mtime |-> fs[f].mtime])])]
  /\ UNCHANGED <<disk, up, tableHandle, indexedFiles, results, events, hist>>
  /\ UNCHANGED mark
  /\ UNCHANGED ext

\* await parseConversation(filePath): stat, read, filter the messages
Parse(r) ==
  /\ up /\ runs[r].pc = "parse"
  /\ LET rec == runs[r]
         f == Cur(rec).file
     IN IF fs[f].mtime = 0
        THEN /\ runs' = [runs EXCEPT ![r] = Caught(rec, "missing")]
             /\ UNCHANGED emptySeen
        ELSE IF fs[f].n = 0
        THEN \* messages.length === 0: parseConversation returns null
             /\ runs' = [runs EXCEPT ![r] = Advance(rec, "empty", 0)]
             /\ emptySeen' = [emptySeen EXCEPT ![f] = fs[f].mtime]
        ELSE /\ runs' = [runs EXCEPT ![r] = [rec EXCEPT
                  !.pc = "embed",
                  !.conv = [ver |-> fs[f].mtime, n |-> fs[f].n,
                            lastModified |-> fs[f].mtime]]]
             /\ UNCHANGED emptySeen
  /\ UNCHANGED <<disk, up, tableHandle, indexedFiles, results, events,
                 wrote, completed, crashed, disturbed>>
  /\ UNCHANGED mark
  /\ UNCHANGED ext

\* await embed(texts) resolves, then this.db.tableNames() is issued
Embed(r) ==
  /\ up /\ runs[r].pc = "embed"
  /\ runs' = [runs EXCEPT ![r].pc = "names"]
  /\ UNCHANGED <<disk, up, tableHandle, indexedFiles, results, events, hist>>
  /\ UNCHANGED mark
  /\ UNCHANGED ext

\* await embed(texts) rejects
EmbedFail(r) ==
  /\ up /\ runs[r].pc = "embed"
  /\ runs' = [runs EXCEPT ![r] = Caught(runs[r], "embed")]
  /\ disturbed' = TRUE
  /\ UNCHANGED <<disk, up, tableHandle, indexedFiles, results, events,
                 wrote, completed, emptySeen, crashed>>
  /\ UNCHANGED mark
  /\ UNCHANGED ext

\* await this.db.tableNames() resolves: tables.includes(TABLE_NAME)
Names(r) ==
  /\ up /\ runs[r].pc = "names"
  /\ runs' = [runs EXCEPT ![r].pc = IF tableExists THEN "delete" ELSE "create"]
  /\ UNCHANGED <<disk, up, tableHandle, indexedFiles, results, events, hist>>
  /\ UNCHANGED mark
  /\ UNCHANGED ext

\* await this.table!.delete(`"sessionId" = '...'`)
Delete(r) ==
  /\ up /\ runs[r].pc = "delete"
  /\ IF tableHandle
     THEN /\ table' = DeleteSession(table, Batch(runs[r]).sessionId)
          /\ runs' = [runs EXCEPT ![r].pc = "add"]
     ELSE \* this.table is null: TypeError inside the try
          /\ runs' = [runs EXCEPT ![r] = Caught(runs[r], "store")]
          /\ UNCHANGED table
  /\ UNCHANGED <<fs, tableExists, metaExists, meta, up, tableHandle,
                 indexedFiles, results, events, hist>>
  /\ UNCHANGED mark
  /\ UNCHANGED ext

\* what runs when the add/createTable has resolved, up to the first await of
\* saveIndexedFiles: indexedFiles.set, the snapshot of the map, tableNames()
CheckpointedUnsaved(r) ==
  LET rec == runs[r]
      map == [indexedFiles EXCEPT ![Cur(rec).file] = CheckpointMtime(rec, fs)]
  IN /\ indexedFiles' = map
     /\ runs' = [runs EXCEPT ![r] = Advance(rec, "saved", rec.conv.n)]
     /\ wrote' = [wrote EXCEPT ![Cur(rec).file] =
                    IF rec.conv.ver > @ THEN rec.conv.ver ELSE @]

Checkpointed(r) ==
  LET rec == runs[r]
      map == [indexedFiles EXCEPT ![Cur(rec).file] = CheckpointMtime(rec, fs)]
  IN /\ indexedFiles' = map
     /\ runs' = [runs EXCEPT ![r] = [rec EXCEPT !.pc = "metaNames",
                                                !.snap = Entries(map)]]
     /\ wrote' = [wrote EXCEPT ![Cur(rec).file] =
                    IF rec.conv.ver > @ THEN rec.conv.ver ELSE @]

\* await this.table!.add(records)
Add(r) ==
  /\ up /\ runs[r].pc = "add"
  /\ table' = table (+) SetToBag({Batch(runs[r])})
  /\ Checkpointed(r)
  /\ UNCHANGED <<fs, tableExists, metaExists, meta, up, tableHandle,
                 results, events, completed, emptySeen, crashed, disturbed>>
  /\ UNCHANGED mark
  /\ UNCHANGED ext

\* this.table = await this.db.createTable(TABLE_NAME, records)
Create(r) ==
  /\ up /\ runs[r].pc = "create"
  /\ IF tableExists
     THEN \* the table was created meanwhile: createTable rejects
          /\ runs' = [runs EXCEPT ![r] = Caught(runs[r], "store")]
          /\ UNCHANGED <<tableExists, table, tableHandle, indexedFiles, wrote>>
     ELSE /\ tableExists' = TRUE
          /\ table' = SetToBag({Batch(runs[r])})
          /\ tableHandle' = TRUE
          /\ Checkpointed(r)
  /\ UNCHANGED <<fs, metaExists, meta, up, results, events, completed,
                 emptySeen, crashed, disturbed>>
  /\ UNCHANGED mark
  /\ UNCHANGED ext

\* the per-file step is over: saveIndexedFiles returned, processed++,
\* added += records.length
StepDone(r) ==
  LET rec == runs[r]
  IN /\ runs' = [runs EXCEPT ![r] = Advance(rec, "saved", rec.conv.n)]
     /\ completed' = [completed EXCEPT ![Cur(rec).file] = indexedFiles[Cur(rec).file]]

\* saveIndexedFiles: await this.db.tableNames(), then openTable
MetaNames(r) ==
  /\ up /\ runs[r].pc = "metaNames"
  /\ IF metaExists
     THEN /\ runs' = [runs EXCEPT ![r].pc = "metaDelete"]
          /\ UNCHANGED completed
     ELSE IF runs[r].snap # {}
     THEN /\ runs' = [runs EXCEPT ![r].pc = "metaCreate"]
          /\ UNCHANGED completed
     ELSE StepDone(r)
  /\ UNCHANGED <<disk, up, tableHandle, indexedFiles, results, events,
                 wrote, emptySeen, crashed, disturbed>>
  /\ UNCHANGED mark
  /\ UNCHANGED ext

\* saveIndexedFiles: await metaTable.delete("true")
MetaDelete(r) ==
  /\ up /\ runs[r].pc = "metaDelete"
  /\ meta' = {}
  /\ IF runs[r].snap # {}
     THEN /\ runs' = [runs EXCEPT ![r].pc = "metaAdd"]
          /\ UNCHANGED completed
     ELSE StepDone(r)
  /\ UNCHANGED <<fs, tableExists, table, metaExists, up, tableHandle,
                 indexedFiles, results, events, wrote, emptySeen, crashed,
                 disturbed>>
  /\ UNCHANGED mark
  /\ UNCHANGED ext

\* saveIndexedFiles: await metaTable.add(records)
MetaAdd(r) ==
  /\ up /\ runs[r].pc = "metaAdd"
  /\ meta' = meta \cup runs[r].snap
  /\ StepDone(r)
  /\ UNCHANGED <<fs, tableExists, table, metaExists, up, tableHandle,
                 indexedFiles, results, events, wrote, emptySeen, crashed,
                 disturbed>>
  /\ UNCHANGED mark
  /\ UNCHANGED ext

\* saveIndexedFiles: await this.db.createTable(METADATA_TABLE, records)
MetaCreate(r) ==
  /\ up /\ runs[r].pc = "metaCreate"
  /\ IF metaExists
     THEN \* created meanwhile: createTable rejects into the per-file catch
          /\ runs' = [runs EXCEPT ![r] = Caught(runs[r], "store")]
          /\ UNCHANGED <<metaExists, meta, completed>>
     ELSE /\ metaExists' = TRUE
          /\ meta' = runs[r].snap
          /\ StepDone(r)
  /\ UNCHANGED <<fs, tableExists, table, up, tableHandle, indexedFiles,
                 results, events, wrote, emptySeen, crashed, disturbed>>
  /\ UNCHANGED mark
  /\ UNCHANGED ext

\* db.search: no table handle returns []; otherwise the rows of the table
Search ==
  /\ up /\ events < MaxEvents
  /\ results' = IF tableHandle THEN table ELSE EmptyBag
  /\ events' = events + 1
  /\ UNCHANGED <<disk, up, tableHandle, indexedFiles, runs, hist>>
  /\ UNCHANGED mark
  /\ UNCHANGED ext

Step(r) ==
  \/ Stat(r) \/ Parse(r) \/ Embed(r) \/ EmbedFail(r) \/ Names(r)
  \/ Delete(r) \/ Add(r) \/ Create(r)
  \/ MetaNames(r) \/ MetaDelete(r) \/ MetaAdd(r) \/ MetaCreate(r)

Next ==
  \/ Main \/ Crash \/ ToolCall \/ WatchFire \/ Modify \/ Remove \/ Search
  \/ \E r \in Runs : Step(r)

Spec == Init /\ [][Next]_vars

\* ------------------------------------------------------------------ claims
\* number of batches in bag t that were built from file f
Copies(t, f) ==
  LET of == {b \in BagToSet(t) : b.file = f}
      RECURSIVE Sum(_)
      Sum(S) == IF S = {} THEN 0
                ELSE LET b == CHOOSE x \in S : TRUE IN t[b] + Sum(S \ {b})
  IN Sum(of)

\* every session in bag t is held as one batch, once: one complete segment
\* set that comes from a single parse
OneParsePerSession(t) ==
  \A b \in BagToSet(t) :
     /\ t[b] = 1
     /\ \A c \in BagToSet(t) : c.sessionId = b.sessionId => c = b

\* run r has mutated a table in its current per-file step and has a further
\* mutation of that step still to issue
MidMutation(r) ==
  runs[r].pc \in {"add", "metaNames", "metaDelete", "metaAdd", "metaCreate"}

\* C1: a checkpoint entry, in the in-memory map and in the persisted
\* metadata table, never records a modification time newer than the newest
\* content of that file whose add/createTable has completed: the entry is
\* set and persisted only after the file's records were written.
C1_CheckpointAfterWrite ==
  /\ \A row \in meta : row.mtime <= wrote[row.file]
  /\ \A f \in Files : indexedFiles[f] <= wrote[f]

\* C1 witness: a full run and a single-file run have both saved a file and
\* a checkpoint row is persisted.
C1_Witness ==
  /\ runs["startup"].pc = "done" /\ runs["startup"].cause = "saved"
  /\ runs["watch"].pc = "done" /\ runs["watch"].cause = "saved"
  /\ \E row \in meta : row.mtime = wrote[row.file]

\* C2: after a kill, a restart and an undisturbed non-forced full run that
\* returned, every file that yields qualifying messages has exactly one
\* complete copy of its segment set in the record table.
C2_CrashNoLossNoDuplication ==
  (crashed /\ up /\ ~disturbed /\ runs["startup"].pc = "done"
     /\ runs["startup"].outcome = "returned")
    => \A f \in Files : fs[f].n > 0 => Copies(table, f) = 1

\* C3: when the process is killed, the persisted checkpoint table still has
\* an entry for every file whose per-file step had completed.
C3_CrashKeepsCompletedCheckpoints ==
  (crashed /\ ~up)
    => \A f \in Files : completed[f] # 0 => \E row \in meta : row.file = f

\* C4: once every indexing operation of a process that was never killed has
\* finished, the record table holds
\* each segment id at most once and the records of a session all come from
\* one parse.
C4_OverlapLeavesOneParse ==
  (up /\ ~crashed /\ \A r \in Runs : Free(r)) => OneParsePerSession(table)

\* C5: no two indexing operations are at the same time between two of their
\* own mutations of the record table or the checkpoint table.
C5_MutualExclusion ==
  \A r1 \in Runs, r2 \in Runs : r1 # r2 => ~(MidMutation(r1) /\ MidMutation(r2))

\* C6: a search observes, for every session, either no records or one
\* complete segment set of a single parse, never a mix of two sets.
C6_SearchSeesNoMix == OneParsePerSession(results)

\* C7: the enumeration of a full run skips a file exactly when the run is
\* not forced and the checkpoint holds a modification time not smaller than
\* the file's; and the startup run after a restart skips every file whose
\* per-file step had completed at the file's current modification time.
C7_SkipRule ==
  [][\A r \in FullRuns :
       (up /\ up' /\ runs[r].pc = "stat" /\ runs'[r] # runs[r]
           /\ fs[Head(runs[r].files)].mtime # 0)
         => LET f == Head(runs[r].files)
                m == fs[f].mtime
                queued == runs'[r].queue
                            = Append(runs[r].queue, [file |-> f, mtime |-> m])
            IN /\ (~runs[r].force /\ indexedFiles[f] >= m) => ~queued
               /\ (runs[r].force \/ indexedFiles[f] < m) => queued
               /\ (r = "startup" /\ crashed /\ completed[f] >= m) => ~queued]_vars

\* C8: a full run never rejects because of one file: it returns its counts.
C8_FullRunNeverAborts ==
  \A r \in FullRuns : runs[r].pc = "done" => runs[r].outcome = "returned"

\* C9: a file that was read and yielded no qualifying message has a
\* checkpoint at the modification time it was read at.
C9_EmptyFileCheckpointed ==
  \A f \in Files : (up /\ emptySeen[f] # 0) => indexedFiles[f] >= emptySeen[f]

\* C10: a single-file run on a missing path gives its caller an outcome that
\* differs from the {processed: 1, added: 0} of a run that added nothing.
C10_MissingFileIsAnError ==
  \A r \in Runs :
     (runs[r].pc = "done" /\ runs[r].kind = "file" /\ runs[r].cause = "missing")
       => <<runs[r].outcome, runs[r].processed, runs[r].added>> # <<"returned", 1, 0>>

\* ------------------------------------------- calls made before db.init()
\* `if (!this.db) throw new Error("Database not initialized")`
RequireDb(isOpen) == IF isOpen THEN "proceed" ELSE "threw"

\* `if (!this.table) return ...` of search and getStatus
RequireTableSkipped(handle) == "proceed"

RequireTable(handle) == IF handle THEN "proceed" ELSE "returned"

\* a store left behind by an earlier process: some of the files indexed,
\* some of those checkpointed
PreInit ==
  /\ fs \in [Files -> [mtime : 1..MaxMtime, n : 0..MaxChunks]]
  /\ tableExists \in BOOLEAN /\ metaExists \in BOOLEAN
  /\ metaExists => tableExists
  /\ \E S \in SUBSET {f \in Files : fs[f].n > 0} :
       /\ table = IF tableExists
                  THEN SetToBag({[file |-> f, sessionId |-> SessionId(f),
                                  ver |-> fs[f].mtime, n |-> fs[f].n] : f \in S})
                  ELSE EmptyBag
       /\ wrote = [f \in Files |-> IF tableExists /\ f \in S THEN fs[f].mtime ELSE 0]
       /\ \E T \in SUBSET S :
            /\ meta = IF metaExists
                      THEN {[file |-> f, mtime |-> fs[f].mtime] : f \in T}
                      ELSE {}
            /\ completed = [f \in Files |-> IF metaExists /\ f \in T
                                            THEN fs[f].mtime ELSE 0]
  /\ up = FALSE /\ tableHandle = FALSE
  /\ indexedFiles = NoMap
  /\ runs = [r \in Runs |-> IdleRun]
  /\ results = EmptyBag
  /\ events = 0
  /\ emptySeen = NoMap
  /\ crashed = FALSE /\ disturbed = FALSE
  /\ mark = NoMap
  /\ ExtIdle

\* db.indexAll(force) on a ConversationDB whose init() was not called
PreIndexAll ==
  /\ ~up
  /\ \E force \in BOOLEAN :
       call' = [op |-> "indexAll", outcome |-> RequireDb(up)]
  /\ UNCHANGED <<db, pure, loop>>

\* db.indexFile(filePath) before init()
PreIndexFile ==
  /\ ~up
  /\ \E f \in Files :
       call' = [op |-> "indexFile", outcome |-> RequireDb(up)]
  /\ UNCHANGED <<db, pure, loop>>

\* db.search(query) before init(): this.table is null, returns []
PreSearch ==
  /\ ~up
  /\ call' = [op |-> "search", outcome |-> RequireTable(tableHandle)]
  /\ UNCHANGED <<db, pure, loop>>

\* db.getStatus() before init(): this.table is null, returns zeros
PreGetStatus ==
  /\ ~up
  /\ call' = [op |-> "getStatus", outcome |-> RequireTable(tableHandle)]
  /\ UNCHANGED <<db, pure, loop>>

PreNext == PreIndexAll \/ PreIndexFile \/ PreSearch \/ PreGetStatus

SpecPre == PreInit /\ [][PreNext]_vars

\* C11 as stated: every operation invoked before init surfaces an error to
\* its caller.
C11_EveryCallBeforeInitThrows ==
  call.op # "none" => call.outcome = "threw"

\* what the guards do: indexAll and indexFile reject for that call only,
\* search and getStatus return their empty result without an error; no call
\* starts a run, opens the store or fills the checkpoint map
CallsBeforeInit ==
  /\ call.op \in {"indexAll", "indexFile"} => call.outcome = "threw"
  /\ call.op \in {"search", "getStatus"} => call.outcome = "returned"
  /\ ~up /\ ~tableHandle /\ indexedFiles = NoMap
  /\ \A r \in Runs : runs[r] = IdleRun

\* ------------------------------------- the replace step applied repeatedly
MaxStored == 2
MaxApply == 2

\* one batch of records as table.add receives it
Batches ==
  {[file |-> f, sessionId |-> SessionId(f), ver |-> v, n |-> k] :
     f \in Files, v \in 1..MaxMtime, k \in 1..MaxChunks}

RECURSIVE BagOf(_)
BagOf(s) == IF s = <<>> THEN EmptyBag
            ELSE SetToBag({Head(s)}) (+) BagOf(Tail(s))

\* record tables of at most MaxStored batches, duplicates included
StoredTables ==
  {BagOf(s) : s \in UNION {[1..k -> Batches] : k \in 0..MaxStored}}

\* the records a table holds for one session
SessionRecords(t, sid) ==
  [b \in {x \in DOMAIN t : x.sessionId = sid} |-> t[b]]

ReplaceInit ==
  /\ DbInit /\ \A f \in Files : fs[f].n = 0
  /\ call = NoCall
  /\ watcher = FALSE /\ debounceTimers = NoTimers /\ armed = {}
  /\ nextId = 1 /\ inflight = NoTimers /\ watch = WatchHistory
  /\ \E t \in StoredTables, b \in Batches :
       /\ arg = [fn |-> "replace", table |-> t, batch |-> b]
       /\ res = [fn |-> "replace", pc |-> "delete", n |-> 0,
                 table |-> t, once |-> EmptyBag]

\* await this.table.delete(`"sessionId" = '...'`)
ReplaceDelete ==
  /\ res.fn = "replace" /\ res.pc = "delete" /\ res.n < MaxApply
  /\ res' = [res EXCEPT !.pc = "add",
                        !.table = DeleteSession(@, arg.batch.sessionId)]
  /\ UNCHANGED <<db, call, arg, loop>>

\* await this.table.add(records)
ReplaceAdd ==
  /\ res.fn = "replace" /\ res.pc = "add"
  /\ LET t == res.table (+) SetToBag({arg.batch})
     IN res' = [res EXCEPT !.pc = "delete", !.n = @ + 1, !.table = t,
                           !.once = IF res.n = 0 THEN t ELSE @]
  /\ UNCHANGED <<db, call, arg, loop>>

ReplaceNext == ReplaceDelete \/ ReplaceAdd

SpecReplace == ReplaceInit /\ [][ReplaceNext]_vars

\* C12: whenever the delete-then-append step has run to its end two or more
\* times with the same batch, the session's records are those left by the
\* first run (the batch, once), and at every point the records of all other
\* sessions are the ones the table started with.
C12_ReplaceIdempotent ==
  /\ (res.n >= 2 /\ res.pc = "delete") =>
       /\ res.table = res.once
       /\ SessionRecords(res.table, arg.batch.sessionId) = SetToBag({arg.batch})
  /\ \A f \in Files :
       SessionId(f) # arg.batch.sessionId =>
         SessionRecords(res.table, SessionId(f)) = SessionRecords(arg.table, SessionId(f))

\* C12 witness: the step ran twice on a table that already held an older
\* batch of the session and a batch of another session.
C12_Witness ==
  /\ res.fn = "replace" /\ res.n = 2
  /\ \E b \in DOMAIN arg.table :
       b.sessionId = arg.batch.sessionId /\ b # arg.batch
  /\ \E b \in DOMAIN arg.table : b.sessionId # arg.batch.sessionId

\* ------------------------------------------------------- the watch loop
MaxWatchEvents == 4

\* filePath.endsWith(".jsonl")
IsLogFileIncludes(p) == \E i \in 1..Len(p) : p[i] = ".jsonl"

IsLogFile(p) == p[Len(p)] = ".jsonl"

\* clearTimeout(existing)
ClearTimeoutKeeps(timers, id) == timers

ClearTimeout(timers, id) == {t \in timers : t.id # id}

\* setTimeout(callback, 3000)
SetTimeout(id, p) == [id |-> id, path |-> p, left |-> DebounceDelay]

\* stop(): clearTimeout on every value of debounceTimers
ClearAllKeeps(timers, map) == timers

ClearAll(timers, map) == {t \in timers : \A p \in WatchPaths : map[p] # t.id}

Pending(p) == IF debounceTimers[p] # 0 THEN 1 ELSE 0

WatchInit ==
  /\ DbInit /\ \A f \in Files : fs[f].n = 0
  /\ call = NoCall /\ arg = NoArg /\ res = NoRes
  /\ watcher = FALSE
  /\ debounceTimers = NoTimers
  /\ armed = {}
  /\ nextId = 1
  /\ inflight = NoTimers
  /\ watch = WatchHistory

\* start(): subscribes unless there is no directory to watch
Start ==
  /\ ~watcher
  /\ \E dirs \in BOOLEAN :
       /\ watcher' = dirs
       /\ watch' = [watch EXCEPT !.started = @ \/ dirs]
  /\ UNCHANGED <<debounceTimers, armed, nextId, inflight>>
  /\ UNCHANGED <<db, call, pure>>

\* handleChange(filePath), called by the subscription on "add" and "change"
ChangeEvent(p) ==
  /\ watcher /\ watch.events < MaxWatchEvents
  /\ IF ~IsLogFile(p)
     THEN /\ watch' = [watch EXCEPT !.events = @ + 1, !.ignored = @ + 1]
          /\ UNCHANGED <<debounceTimers, armed, nextId>>
     ELSE LET existing == debounceTimers[p]
          IN /\ armed' = ClearTimeout(armed, existing) \cup {SetTimeout(nextId, p)}
             /\ debounceTimers' = [debounceTimers EXCEPT ![p] = nextId]
             /\ nextId' = nextId + 1
             /\ watch' = [watch EXCEPT
                  !.events = @ + 1,
                  !.since[p] = 0,
                  !.bursts[p] = IF watch.since[p] = DebounceDelay THEN @ + 1 ELSE @,
                  !.merged[p] = IF existing = 0 THEN @ + 1 ELSE @,
                  !.rearmed[p] = IF existing # 0 THEN @ + 1 ELSE @]
  /\ UNCHANGED <<watcher, inflight>>
  /\ UNCHANGED <<db, call, pure>>

\* one second passes; a timer that is due stays armed until its callback runs
Tick ==
  /\ \/ \E t \in armed : t.left > 0
     \/ \E p \in WatchPaths : watch.since[p] < DebounceDelay
  /\ armed' = {[t EXCEPT !.left = IF @ > 0 THEN @ - 1 ELSE 0] : t \in armed}
  /\ watch' = [watch EXCEPT !.since =
                 [p \in WatchPaths |-> IF @[p] < DebounceDelay THEN @[p] + 1 ELSE @[p]]]
  /\ UNCHANGED <<watcher, debounceTimers, nextId, inflight>>
  /\ UNCHANGED <<db, call, pure>>

\* the timer callback: debounceTimers.delete(filePath), then db.indexFile
FireKeepsEntry(t) ==
  /\ t \in armed /\ t.left = 0
  /\ armed' = armed \ {t}
  /\ inflight' = [inflight EXCEPT ![t.path] = @ + 1]
  /\ watch' = [watch EXCEPT !.fires[t.path] = @ + 1,
                            !.afterError = @ \/ (watch.errors > 0 /\ t.id >= watch.errorId)]
  /\ UNCHANGED <<watcher, debounceTimers, nextId>>
  /\ UNCHANGED <<db, call, pure>>

Fire(t) ==
  /\ t \in armed /\ t.left = 0
  /\ armed' = armed \ {t}
  /\ debounceTimers' = [debounceTimers EXCEPT ![t.path] = 0]
  /\ inflight' = [inflight EXCEPT ![t.path] = @ + 1]
  /\ watch' = [watch EXCEPT !.fires[t.path] = @ + 1,
                            !.afterError = @ \/ (watch.errors > 0 /\ t.id >= watch.errorId)]
  /\ UNCHANGED <<watcher, nextId>>
  /\ UNCHANGED <<db, call, pure>>

\* indexFile resolved
RunReturn(p) ==
  /\ inflight[p] > 0
  /\ inflight' = [inflight EXCEPT ![p] = @ - 1]
  /\ UNCHANGED <<watcher, debounceTimers, armed, nextId, watch>>
  /\ UNCHANGED <<db, call, pure>>

\* indexFile reported an error or rejected: catch, logError
RunErrorStops(p) ==
  /\ inflight[p] > 0
  /\ inflight' = [inflight EXCEPT ![p] = @ - 1]
  /\ watch' = [watch EXCEPT !.errors = @ + 1, !.errorId = nextId]
  /\ watcher' = FALSE
  /\ UNCHANGED <<debounceTimers, armed, nextId>>
  /\ UNCHANGED <<db, call, pure>>

RunError(p) ==
  /\ inflight[p] > 0
  /\ inflight' = [inflight EXCEPT ![p] = @ - 1]
  /\ watch' = [watch EXCEPT !.errors = @ + 1, !.errorId = nextId]
  /\ UNCHANGED <<watcher, debounceTimers, armed, nextId>>
  /\ UNCHANGED <<db, call, pure>>

\* stop(): close the subscription, clear every timer, clear the map
Stop ==
  /\ watch.events < MaxWatchEvents
  /\ watcher' = FALSE
  /\ armed' = ClearAll(armed, debounceTimers)
  /\ debounceTimers' = NoTimers
  /\ watch' = [watch EXCEPT
       !.events = @ + 1, !.stops = @ + 1, !.stopId = nextId,
       !.cancelled = [p \in WatchPaths |-> @[p] + Pending(p)]]
  /\ UNCHANGED <<nextId, inflight>>
  /\ UNCHANGED <<db, call, pure>>

WatchNext ==
  \/ Start
  \/ \E p \in WatchPaths : ChangeEvent(p)
  \/ Tick
  \/ \E t \in armed : Fire(t)
  \/ \E p \in WatchPaths : RunReturn(p)
  \/ \E p \in WatchPaths : RunError(p)
  \/ Stop

SpecWatch == WatchInit /\ [][WatchNext]_vars

LogPaths == {p \in WatchPaths : p[Len(p)] = ".jsonl"}

\* C13 as stated: with bursts delimited by a gap of DebounceDelay or more
\* between events of one path, and the loop never stopped, every burst has
\* had its one run or still has its timer pending.
C13_OneRunPerBurst ==
  \A p \in LogPaths :
     watch.stops = 0 => watch.bursts[p] = watch.fires[p] + Pending(p)

\* what the timers do guarantee: an event joins the pending burst of its
\* path whenever that burst's timer callback has not run yet, which is always
\* so when it comes less than DebounceDelay after the previous event; every
\* such burst gets exactly one run unless stop() cancelled it, and a run is
\* invoked only when DebounceDelay has passed since the last event of its path
DebouncedRuns ==
  /\ [](\A p \in LogPaths :
          /\ watch.merged[p] = watch.fires[p] + Pending(p) + watch.cancelled[p]
          /\ (watch.stops = 0 /\ watch.since[p] < DebounceDelay) => Pending(p) = 1)
  /\ [][\A p \in LogPaths :
          watch'.fires[p] > watch.fires[p] => watch.since[p] = DebounceDelay]_vars

\* C14: a path never has two armed timers and the map names exactly the
\* armed timer of each path; a handled event replaces the timer of its own
\* path by a fresh one and leaves the timers of all other paths as they are.
C14_OneTimerPerPath ==
  /\ [](\A p \in WatchPaths :
          /\ Cardinality({t \in armed : t.path = p}) <= 1
          /\ \A t \in armed : t.path = p => t.id = debounceTimers[p]
          /\ debounceTimers[p] # 0 => \E t \in armed : t.id = debounceTimers[p])
  /\ [][\A p \in WatchPaths :
          (watch'.merged[p] > watch.merged[p] \/ watch'.rearmed[p] > watch.rearmed[p]) =>
             /\ {t \in armed' : t.path = p} =
                  {[id |-> nextId, path |-> p, left |-> DebounceDelay]}
             /\ \A t \in armed : t.path # p => t \in armed'
             /\ \A q \in WatchPaths \ {p} : debounceTimers'[q] = debounceTimers[q]]_vars

\* C14 witness: an event re-armed the timer of its path while another path
\* had a timer that was already running down.
C14_Witness ==
  \E p \in LogPaths :
     /\ watch.rearmed[p] >= 1 /\ Pending(p) = 1
     /\ \E t \in armed : t.path # p /\ t.left < DebounceDelay

\* C15: stop() releases the subscription and leaves no timer armed and the
\* map empty; no timer armed before a stop() is armed after it, so none of
\* them starts a run.
C15_StopCancelsAll ==
  /\ [](/\ ~watcher => armed = {} /\ debounceTimers = NoTimers
        /\ \A t \in armed : t.id >= watch.stopId)
  /\ [][watch'.stops > watch.stops =>
          /\ ~watcher' /\ armed' = {} /\ debounceTimers' = NoTimers
          /\ watch'.fires = watch.fires]_vars

\* C15 witness: stop() was called while a timer was pending, and the path
\* of that timer never got a run.
C15_Witness ==
  /\ ~watcher /\ watch.stops = 1
  /\ \E p \in LogPaths : watch.cancelled[p] = 1 /\ watch.fires[p] = 0

\* C16: a run that ends in an error changes neither the subscription nor any
\* timer, and a loop that was started and not stopped is still subscribed.
C16_ErrorKeepsLoop ==
  /\ [][watch'.errors > watch.errors =>
          UNCHANGED <<watcher, debounceTimers, armed, nextId>>]_vars
  /\ []((watch.started /\ watch.stops = 0) => watcher)

\* C16 witness: after an error, an event armed a timer and that timer
\* started a run.
C16_Witness == watch.afterError /\ watcher /\ watch.errors > 0

\* C17: an event for a path that does not end in .jsonl changes nothing of
\* the watcher, and such a path never has a timer or a run.
C17_OtherPathsIgnored ==
  /\ [][watch'.ignored > watch.ignored =>
          /\ UNCHANGED <<watcher, debounceTimers, armed, nextId, inflight>>
          /\ watch'.fires = watch.fires]_vars
  /\ [](\A p \in WatchPaths \ LogPaths :
          /\ debounceTimers[p] = 0 /\ inflight[p] = 0 /\ watch.fires[p] = 0
          /\ \A t \in armed : t.path # p)

\* C17 witness: an event for a.jsonl.bak was dropped while a timer of a
\* log file was pending.
C17_Witness ==
  /\ watch.ignored > 0
  /\ \E p \in LogPaths : Pending(p) = 1

\* position of a file in the directory listing
Pos(f) == CHOOSE k \in 1..Len(FileOrder) : FileOrder[k] = f

\* run r is inside the per-file loop of indexAll
InLoop(r) == runs[r].kind = "all" /\ runs[r].pc \notin {"idle", "done", "stat"}

\* C18: a full run is at one file at a time, the files before it have all
\* had their step ended, and the queue follows the enumeration order; the
\* run moves on (to the parse of the next file, or to its return) only in
\* the step that ends the current file: with its checkpoint row written to
\* the metadata table, with nothing to add, or with a caught failure.
C18_OneFileAtATime ==
  /\ [](\A r \in FullRuns : InLoop(r) =>
          /\ runs[r].i \in 1..Len(runs[r].queue)
          /\ runs[r].processed = runs[r].i - 1
          /\ \A j, k \in 1..Len(runs[r].queue) :
                j < k => Pos(runs[r].queue[j].file) < Pos(runs[r].queue[k].file))
  /\ [][\A r \in FullRuns :
          (InLoop(r) /\ up' /\ (runs'[r].i # runs[r].i \/ runs'[r].pc = "done")) =>
             /\ runs'[r].pc \in {"parse", "done"}
             /\ runs'[r].processed = runs[r].processed + 1
             /\ runs'[r].cause \in {"saved", "empty", "missing", "embed", "store"}
             /\ runs'[r].cause = "saved" =>
                  [file |-> Cur(runs[r]).file, mtime |-> Cur(runs[r]).mtime] \in meta'
             /\ runs'[r].cause \in {"empty", "missing"} => runs[r].pc = "parse"
             /\ runs'[r].pc = "parse" =>
                  /\ runs'[r].i = runs[r].i + 1
                  /\ runs'[r].queue = runs[r].queue]_vars

\* C18 witness: a full run is about to parse its second file, the step of
\* the first having ended with its checkpoint persisted.
C18_Witness ==
  \E r \in FullRuns :
     /\ InLoop(r) /\ runs[r].pc = "parse" /\ runs[r].i = 2
     /\ runs[r].cause = "saved"
     /\ \E row \in meta : row.file = runs[r].queue[1].file

\* C19: a file was modified while a full run was in progress, its own
\* single-file run was started after that and the content has been stored;
\* when no run is left in progress, the table holds for that file the one segment
\* set of its latest content and nothing else.
C19_LatestContentWins ==
  \A f \in Files :
     (/\ up /\ \A r \in Runs : Free(r)
      /\ mark[f] = 2
      /\ fs[f].n > 0 /\ wrote[f] = fs[f].mtime)
     => /\ Copies(table, f) = 1
        /\ \A b \in BagToSet(table) : b.file = f => b.ver = fs[f].mtime

\* --------------------------------------------------------- chunkConversation
MaxMsgs == 3
MaxStamp == 2
SmallChunkSize == 20

\* maxChunkSize = 2000
DefaultChunkSize == 2000

\* new Date().toISOString() when there is no first message
Now == 0

\* strings are sequences of characters
Whitespace == {" ", "\n"}

Contents ==
  {<<"a">>, <<"b", "\n", "\n", "c">>, [k \in 1..12 |-> "d"]}

Messages == [role : {"user", "assistant"}, content : Contents, timestamp : 1..MaxStamp]

Conversations ==
  {[sessionId |-> "s", project |-> "p", messages |-> m] :
     m \in UNION {[1..k -> Messages] : k \in 0..MaxMsgs}}

\* String.prototype.trim
RECURSIVE TrimStart(_)
TrimStart(str) ==
  IF str # <<>> /\ Head(str) \in Whitespace THEN TrimStart(Tail(str)) ELSE str

RECURSIVE TrimEnd(_)
TrimEnd(str) ==
  IF str # <<>> /\ str[Len(str)] \in Whitespace
  THEN TrimEnd(SubSeq(str, 1, Len(str) - 1))
  ELSE str

Trim(str) == TrimEnd(TrimStart(str))

\* `${prefix}${message.content}\n\n`
MessageText(message) ==
  (IF message.role = "user"
   THEN <<"U", "s", "e", "r", ":", " ">>
   ELSE <<"A", "s", "s", "i", "s", "t", "a", "n", "t", ":", " ">>)
  \o message.content \o <<"\n", "\n">>

\* the test that closes the current chunk before a message is appended
ShouldFlushEmpty(currentChunk, messageText, maxChunkSize) ==
  Len(currentChunk) + Len(messageText) > maxChunkSize

ShouldFlush(currentChunk, messageText, maxChunkSize) ==
  Len(currentChunk) + Len(messageText) > maxChunkSize /\ Len(currentChunk) > 0

\* chunks.push({...}); chunkIndex is the number of chunks pushed so far
PushOneBased(chunks, conversation, currentChunk, chunkTimestamp) ==
  Append(chunks, [id |-> <<conversation.sessionId, Len(chunks) + 1>>,
                  sessionId |-> conversation.sessionId,
                  project |-> conversation.project,
                  content |-> Trim(currentChunk),
                  timestamp |-> chunkTimestamp,
                  chunkIndex |-> Len(chunks) + 1])

Push(chunks, conversation, currentChunk, chunkTimestamp) ==
  Append(chunks, [id |-> <<conversation.sessionId, Len(chunks)>>,
                  sessionId |-> conversation.sessionId,
                  project |-> conversation.project,
                  content |-> Trim(currentChunk),
                  timestamp |-> chunkTimestamp,
                  chunkIndex |-> Len(chunks)])

\* the for loop over conversation.messages and the push of the last chunk
RECURSIVE ChunkLoop(_, _, _, _, _, _)
ChunkLoop(conversation, maxChunkSize, rest, chunks, currentChunk, chunkTimestamp) ==
  IF rest = <<>>
  THEN IF Len(Trim(currentChunk)) > 0
       THEN Push(chunks, conversation, currentChunk, chunkTimestamp)
       ELSE chunks
  ELSE LET message == Head(rest)
           messageText == MessageText(message)
       IN IF ShouldFlush(currentChunk, messageText, maxChunkSize)
          THEN ChunkLoop(conversation, maxChunkSize, Tail(rest),
                         Push(chunks, conversation, currentChunk, chunkTimestamp),
                         messageText, message.timestamp)
          ELSE ChunkLoop(conversation, maxChunkSize, Tail(rest), chunks,
                         currentChunk \o messageText, chunkTimestamp)

\* two readings of the clock, neither of them a message timestamp
Clock == {Now, Now - 1}

\* conversation.messages[0]?.timestamp || new Date().toISOString()
FirstTimestampNow(conversation, now) == now

FirstTimestamp(conversation, now) ==
  IF conversation.messages # <<>>
  THEN conversation.messages[1].timestamp ELSE now

\* chunkConversation called when the clock reads now
ChunkAt(conversation, maxChunkSize, now) ==
  ChunkLoop(conversation, maxChunkSize, conversation.messages, <<>>, <<>>,
            FirstTimestamp(conversation, now))

ChunkConversation(conversation, maxChunkSize) ==
  ChunkAt(conversation, maxChunkSize, Now)

ChunkInit ==
  /\ DbInit /\ \A f \in Files : fs[f].n = 0
  /\ call = NoCall
  /\ watcher = FALSE /\ debounceTimers = NoTimers /\ armed = {}
  /\ nextId = 1 /\ inflight = NoTimers /\ watch = WatchHistory
  /\ \E c \in Conversations, size \in {SmallChunkSize, DefaultChunkSize} :
       arg = [fn |-> "chunkConversation", conversation |-> c, maxChunkSize |-> size]
  /\ res = NoRes

\* chunks = chunkConversation(conversation, maxChunkSize)
ChunkApply ==
  /\ arg.fn = "chunkConversation" /\ res = NoRes
  /\ \E now \in Clock :
       res' = [fn |-> "chunkConversation", calls |-> 1,
               chunks |-> ChunkAt(arg.conversation, arg.maxChunkSize, now),
               again |-> <<>>]
  /\ UNCHANGED <<db, call, arg, loop>>

\* the same conversation is chunked a second time, at any clock reading
ChunkAgain ==
  /\ res.fn = "chunkConversation" /\ res.calls = 1
  /\ \E now \in Clock :
       res' = [res EXCEPT !.calls = 2,
                          !.again = ChunkAt(arg.conversation, arg.maxChunkSize, now)]
  /\ UNCHANGED <<db, call, arg, loop>>

ChunkNext == ChunkApply \/ ChunkAgain

SpecChunk == ChunkInit /\ [][ChunkNext]_vars

\* the text of messages from..to of a list, rendered one after the other
RECURSIVE Rendered(_, _, _)
Rendered(messages, from, to) ==
  IF from > to THEN <<>>
  ELSE MessageText(messages[from]) \o Rendered(messages, from + 1, to)

\* ways to cut messages 1..n into consecutive non-empty ranges: the sets of
\* last indices of the ranges
Cuts(n) == IF n = 0 THEN {{}} ELSE {c \cup {n} : c \in SUBSET (1..(n - 1))}

\* the k-th smallest element of a set of numbers
RECURSIVE Kth(_, _)
Kth(S, k) ==
  LET least == CHOOSE x \in S : \A y \in S : x <= y
  IN IF k = 1 THEN least ELSE Kth(S \ {least}, k - 1)

\* C20: the segments are the renderings of consecutive non-empty ranges of
\* the message list that follow each other and together cover it: every
\* message is whole in exactly one segment, in its original place.
C20_ChunksPartitionMessages ==
  res.fn = "chunkConversation" =>
    LET messages == arg.conversation.messages
        chunks == res.chunks
    IN \E cut \in Cuts(Len(messages)) :
         /\ Len(chunks) = Cardinality(cut)
         /\ \A k \in 1..Len(chunks) :
              chunks[k].content =
                Trim(Rendered(messages,
                              IF k = 1 THEN 1 ELSE Kth(cut, k - 1) + 1,
                              Kth(cut, k)))

\* C20 witness: three messages went into two or more segments, one of them
\* holding a message that alone exceeds the segment size.
C20_Witness ==
  /\ res.fn = "chunkConversation"
  /\ Len(arg.conversation.messages) = 3 /\ Len(res.chunks) >= 2
  /\ \E k \in 1..3 :
       Len(MessageText(arg.conversation.messages[k])) > arg.maxChunkSize

\* C21 as stated: no segment is longer than the maximum threshold.
C21_SegmentsBounded ==
  res.fn = "chunkConversation" =>
    \A k \in 1..Len(res.chunks) : Len(res.chunks[k].content) <= arg.maxChunkSize

\* what the flush test does bound: a segment longer than the threshold is
\* the rendering of one single message
LongSegmentsHoldOneMessage ==
  res.fn = "chunkConversation" =>
    \A k \in 1..Len(res.chunks) :
       Len(res.chunks[k].content) > arg.maxChunkSize =>
         \E j \in 1..Len(arg.conversation.messages) :
            res.chunks[k].content = Trim(MessageText(arg.conversation.messages[j]))

\* C22: the segments carry chunkIndex 0, 1, ..., k-1 in order, each id is
\* the session id joined with that index, and each timestamp is the one of
\* the first message of the range the segment renders.
C22_DenseIndexAndFirstTimestamp ==
  res.fn = "chunkConversation" =>
    LET messages == arg.conversation.messages
        chunks == res.chunks
    IN /\ \A k \in 1..Len(chunks) :
            /\ chunks[k].chunkIndex = k - 1
            /\ chunks[k].sessionId = arg.conversation.sessionId
            /\ chunks[k].id = <<arg.conversation.sessionId, k - 1>>
       /\ \A j, k \in 1..Len(chunks) : chunks[j].id = chunks[k].id => j = k
       /\ messages # <<>> => Len(chunks) >= 1
       /\ \E cut \in Cuts(Len(messages)) :
            /\ Len(chunks) = Cardinality(cut)
            /\ \A k \in 1..Len(chunks) :
                 LET first == IF k = 1 THEN 1 ELSE Kth(cut, k - 1) + 1
                 IN /\ chunks[k].content = Trim(Rendered(messages, first, Kth(cut, k)))
                    /\ chunks[k].timestamp = messages[first].timestamp

\* C22 witness: a later segment starts with a message whose timestamp
\* differs from that of the conversation's first message.
C22_Witness ==
  /\ res.fn = "chunkConversation" /\ Len(res.chunks) >= 2
  /\ res.chunks[2].timestamp # arg.conversation.messages[1].timestamp

\* C23: a second chunking of the same conversation, whatever the clock
\* reads, returns the same sequence of segments as the first.
C23_ChunkingDeterministic ==
  (res.fn = "chunkConversation" /\ res.calls = 2) => res.again = res.chunks

\* C23 witness: a conversation of several segments was chunked twice.
C23_Witness ==
  /\ res.fn = "chunkConversation" /\ res.calls = 2
  /\ Len(res.chunks) >= 2 /\ Len(res.again) >= 2

\* ------------------------------------------------------------ db.search
MaxRows == 5
MaxLimit == 2

\* vectorSearch(queryVector).limit(limit * 4)
OverFetch == 4

\* const now = new Date(), counted in days
Today == 2

\* setMonth(getMonth() - 1), counted in days
MonthBack == 30

\* the decimal digits (\d) and their values
DigitValue ==
  ("0" :> 0) @@ ("1" :> 1) @@ ("2" :> 2) @@ ("3" :> 3) @@ ("4" :> 4) @@
  ("5" :> 5) @@ ("6" :> 6) @@ ("7" :> 7) @@ ("8" :> 8) @@ ("9" :> 9)

\* parseInt(digits, 10)
RECURSIVE ParseInt(_)
ParseInt(str) ==
  IF str = <<>> THEN 0
  ELSE 10 * ParseInt(SubSeq(str, 1, Len(str) - 1)) + DigitValue[str[Len(str)]]

\* String.prototype.toLowerCase, on the letters the tokens use
ToLowerCase(str) ==
  LET lower(c) ==
        CASE c = "T" -> "t" [] c = "O" -> "o" [] c = "D" -> "d" [] c = "A" -> "a"
          [] c = "Y" -> "y" [] c = "L" -> "l" [] c = "S" -> "s"
          [] OTHER -> c
  IN [k \in 1..Len(str) |-> lower(str[k])]

\* String.prototype.includes
IncludesExact(str, part) == str = part

Includes(str, part) ==
  \E k \in 0..(Len(str) - Len(part)) : SubSeq(str, k + 1, k + Len(part)) = part

\* dateRange.match(/last\s*(\d+)\s*days?/i): the places where the pattern
\* matches, as <<start of "last", first digit, last digit>>
LastDaysMatches(str) ==
  {m \in (1..Len(str)) \X (1..Len(str)) \X (1..Len(str)) :
     /\ m[1] + 3 < m[2] /\ m[2] <= m[3]
     /\ SubSeq(str, m[1], m[1] + 3) = <<"l", "a", "s", "t">>
     /\ \A k \in (m[1] + 4)..(m[2] - 1) : str[k] \in Whitespace
     /\ \A k \in m[2]..m[3] : str[k] \in DOMAIN DigitValue
     /\ \E d \in (m[3] + 1)..(Len(str) - 2) :
          /\ \A k \in (m[3] + 1)..(d - 1) : str[k] \in Whitespace
          /\ SubSeq(str, d, d + 2) = <<"d", "a", "y">>}

NoRange == [start |-> 1, end |-> 0]

\* start of the day `back` days before now to the end of the day `until`
\* days before now
DayRange(now, back, until) == [start |-> now - back, end |-> now - until]

ParseDateRange(dateRange, now) ==
  LET lower == ToLowerCase(dateRange)
      found == LastDaysMatches(lower)
  IN CASE lower = <<"t", "o", "d", "a", "y">> -> DayRange(now, 0, 0)
       [] lower = <<"y", "e", "s", "t", "e", "r", "d", "a", "y">> -> DayRange(now, 1, 1)
       [] lower \in {<<"l", "a", "s", "t", "_", "w", "e", "e", "k">>,
                     <<"l", "a", "s", "t", " ", "w", "e", "e", "k">>,
                     <<"w", "e", "e", "k">>} -> DayRange(now, 7, 0)
       [] lower \in {<<"l", "a", "s", "t", "_", "m", "o", "n", "t", "h">>,
                     <<"l", "a", "s", "t", " ", "m", "o", "n", "t", "h">>,
                     <<"m", "o", "n", "t", "h">>} -> DayRange(now, MonthBack, 0)
       [] OTHER ->
            IF found = {} THEN NoRange
            ELSE LET m == CHOOSE x \in found :
                            \A y \in found :
                               \/ x[1] < y[1]
                               \/ x[1] = y[1] /\ x[3] >= y[3]
                 IN DayRange(now, ParseInt(SubSeq(lower, m[2], m[3])), 0)

\* the first n elements of a sequence: slice(0, n) and limit(n)
Take(s, n) == SubSeq(s, 1, IF Len(s) < n THEN Len(s) ELSE n)

\* filtered.sort((a, b) => tsB - tsA): a stable sort, most recent first
RECURSIVE InsertByRecency(_, _)
InsertByRecency(row, sorted) ==
  IF sorted = <<>> THEN <<row>>
  ELSE IF Head(sorted).timestamp >= row.timestamp
       THEN <<Head(sorted)>> \o InsertByRecency(row, Tail(sorted))
       ELSE <<row>> \o sorted

RECURSIVE SortByRecency(_)
SortByRecency(rows) ==
  IF rows = <<>> THEN <<>>
  ELSE InsertByRecency(rows[Len(rows)], SortByRecency(SubSeq(rows, 1, Len(rows) - 1)))

\* if (project) filtered = filtered.filter(r => r.project.includes(project))
FilterProject(rows, project) ==
  IF project # <<>>
  THEN SelectSeq(rows, LAMBDA r : Includes(r.project, project))
  ELSE rows

\* if (dateRange) { range = parseDateRange(dateRange); if (range) filter }
FilterDateRangeStrict(rows, dateRange, now) ==
  IF dateRange # <<>>
  THEN LET range == ParseDateRange(dateRange, now)
       IN SelectSeq(rows, LAMBDA r : r.timestamp >= range.start /\ r.timestamp <= range.end)
  ELSE rows

FilterDateRange(rows, dateRange, now) ==
  IF dateRange # <<>>
  THEN LET range == ParseDateRange(dateRange, now)
       IN IF range # NoRange
          THEN SelectSeq(rows, LAMBDA r : r.timestamp >= range.start /\ r.timestamp <= range.end)
          ELSE rows
  ELSE rows

\* the optional sort, then slice(0, limit)
SortAndSliceLate(rows, sortBy, limit) ==
  IF sortBy = "recency" THEN SortByRecency(Take(rows, limit)) ELSE Take(rows, limit)

SortAndSlice(rows, sortBy, limit) ==
  Take(IF sortBy = "recency" THEN SortByRecency(rows) ELSE rows, limit)

\* db.search(query, options) when the clock reads now: what the caller gets,
\* the filtered candidates, and the number of embedOne calls
SearchAt(handle, ranked, options, now) ==
  IF RequireTable(handle) = "returned"
  THEN [outcome |-> "returned", embedCalls |-> 0, filtered |-> <<>>, results |-> <<>>]
  ELSE LET candidates == Take(ranked, options.limit * OverFetch)
           filtered == FilterDateRange(FilterProject(candidates, options.project),
                                       options.dateRange, now)
           page == SortAndSlice(filtered, options.sortBy, options.limit)
       IN [outcome |-> "returned", embedCalls |-> 1, filtered |-> filtered,
           results |-> [k \in 1..Len(page) |->
                          [project |-> page[k].project,
                           timestamp |-> page[k].timestamp,
                           score |-> page[k].distance]]]

\* rows of the table in nearest-neighbour order, nearest first
RankedRows ==
  {[k \in 1..Len(s) |-> [project |-> s[k][1], timestamp |-> s[k][2], distance |-> k]] :
     s \in UNION {[1..n -> {<<"/", "a", "b">>, <<"/", "b">>} \X {Today - 1, Today}] :
                     n \in 0..MaxRows}}

SearchInit ==
  /\ DbInit /\ \A f \in Files : fs[f].n = 0
  /\ call = NoCall
  /\ watcher = FALSE /\ debounceTimers = NoTimers /\ armed = {}
  /\ nextId = 1 /\ inflight = NoTimers /\ watch = WatchHistory
  /\ \E handle \in BOOLEAN, ranked \in RankedRows, limit \in 1..MaxLimit,
        project \in {<<>>, <<"a">>, <<"/", "b">>},
        dateRange \in {<<>>,
                       <<"T", "O", "D", "A", "Y">>,
                       <<"y", "e", "s", "t", "e", "r", "d", "a", "y">>,
                       <<"x", "l", "a", "s", "t", "1", "d", "a", "y">>,
                       <<"l", "a", "s", "t", "d", "a", "y", "s">>},
        sortBy \in {"relevance", "recency"} :
       /\ ~handle => ranked = <<>>
       /\ arg = [fn |-> "search", handle |-> handle, ranked |-> ranked,
                 options |-> [limit |-> limit, project |-> project,
                              dateRange |-> dateRange, sortBy |-> sortBy]]
  /\ res = NoRes

\* results = await db.search(query, options)
SearchApply ==
  /\ arg.fn = "search" /\ res = NoRes
  /\ res' = [fn |-> "search", calls |-> 1,
             out |-> SearchAt(arg.handle, arg.ranked, arg.options, Today),
             plain |-> <<>>]
  /\ UNCHANGED <<db, call, arg, loop>>

\* the same search issued once more without the dateRange option
SearchPlain ==
  /\ res.fn = "search" /\ res.calls = 1
  /\ res' = [res EXCEPT !.calls = 2,
                        !.plain = SearchAt(arg.handle, arg.ranked,
                                           [arg.options EXCEPT !.dateRange = <<>>],
                                           Today).results]
  /\ UNCHANGED <<db, call, arg, loop>>

SearchNext == SearchApply \/ SearchPlain

SpecSearch == SearchInit /\ [][SearchNext]_vars

\* C24: with a project filter, the result has at most `limit` entries and
\* every entry's project contains the filter; with no date range and sort
\* by relevance it is, in candidate order, the first `limit` of those of the
\* limit * OverFetch nearest rows whose project contains the filter.
C24_ProjectFilter ==
  (res.fn = "search" /\ arg.options.project # <<>>) =>
    LET o == arg.options
        r == res.out.results
        has(p) == \E a, b \in 1..Len(p) : a <= b /\ SubSeq(p, a, b) = o.project
        n == IF Len(arg.ranked) < o.limit * OverFetch
             THEN Len(arg.ranked) ELSE o.limit * OverFetch
        keep == {k \in 1..n : has(arg.ranked[k].project)}
    IN /\ Len(r) <= o.limit
       /\ \A k \in 1..Len(r) : has(r[k].project)
       /\ (o.dateRange = <<>> /\ o.sortBy = "relevance") =>
            /\ Len(r) = IF Cardinality(keep) < o.limit THEN Cardinality(keep) ELSE o.limit
            /\ \A k \in 1..Len(r) :
                 /\ r[k].score = Kth(keep, k)
                 /\ r[k].project = arg.ranked[Kth(keep, k)].project
                 /\ r[k].timestamp = arg.ranked[Kth(keep, k)].timestamp

\* C24 witness: the filter "a" dropped a candidate whose project only
\* contains it nowhere, kept one that is not equal to it, and the limit cut
\* the rest.
C24_Witness ==
  /\ res.fn = "search" /\ arg.options.project = <<"a">>
  /\ arg.options.dateRange = <<>> /\ arg.options.sortBy = "relevance"
  /\ Len(res.out.results) = arg.options.limit
  /\ Len(res.out.filtered) > arg.options.limit
  /\ Len(res.out.filtered) < Len(arg.ranked)

\* C25: sorted by recency, the result is in descending timestamp order, has
\* min(limit, number of filtered candidates) entries, each a different
\* filtered candidate, and no filtered candidate left out is more recent
\* than one returned; sorted by relevance, it is the first `limit` filtered
\* candidates in the order of the nearest-neighbour query.
C25_SortThenTruncate ==
  res.fn = "search" =>
    LET o == arg.options
        r == res.out.results
        f == res.out.filtered
        len == IF Len(f) < o.limit THEN Len(f) ELSE o.limit
    IN /\ Len(r) = len
       /\ o.sortBy = "recency" =>
            /\ \A j, k \in 1..Len(r) : j < k => r[j].timestamp >= r[k].timestamp
            /\ \A j, k \in 1..Len(r) : r[j].score = r[k].score => j = k
            /\ \A k \in 1..Len(r) : \E i \in 1..Len(f) :
                 /\ f[i].distance = r[k].score
                 /\ f[i].timestamp = r[k].timestamp /\ f[i].project = r[k].project
            /\ \A i \in 1..Len(f) :
                 (\A k \in 1..Len(r) : r[k].score # f[i].distance) =>
                    \A k \in 1..Len(r) : f[i].timestamp <= r[k].timestamp
       /\ o.sortBy = "relevance" =>
            \A k \in 1..Len(r) :
               /\ r[k].score = f[k].distance
               /\ r[k].timestamp = f[k].timestamp /\ r[k].project = f[k].project

\* C25 witness: sorted by recency, a candidate that lies beyond the first
\* `limit` filtered candidates was returned first.
C25_Witness ==
  /\ res.fn = "search" /\ arg.options.sortBy = "recency"
  /\ Len(res.out.filtered) > arg.options.limit
  /\ Len(res.out.results) >= 1
  /\ \E i \in 1..Len(res.out.filtered) :
       /\ i > arg.options.limit
       /\ res.out.filtered[i].distance = res.out.results[1].score

StepEndsClean(r) ==
  /\ up /\ up'
  /\ runs[r].pc \notin {"idle", "done", "stat"}
  /\ runs'[r].i # runs[r].i \/ runs'[r].pc = "done"
  /\ runs'[r].cause \in {"saved", "empty"}

\* C29: when a run that has been the only one since the process started
\* ends the step of a file without error, the table holds for that file's
\* session exactly the segment set of the file's content: one batch of the
\* current version if the file has qualifying messages, nothing otherwise.
C29_ReindexReplacesWholesale ==
  [][\A r \in Runs :
       (StepEndsClean(r) /\ ~disturbed /\ ~disturbed') =>
          LET f == Cur(runs[r]).file
          IN IF fs[f].n > 0
             THEN /\ Copies(table', f) = 1
                  /\ \A b \in BagToSet(table') :
                        b.file = f => b.ver = fs[f].mtime /\ b.n = fs[f].n
             ELSE Copies(table', f) = 0]_vars

\* what does hold: a step that stored records leaves exactly the new batch
ReindexWithRecordsReplaces ==
  [][\A r \in Runs :
       (StepEndsClean(r) /\ ~disturbed /\ ~disturbed' /\ runs'[r].cause = "saved") =>
          LET f == Cur(runs[r]).file
          IN /\ Copies(table', f) = 1
             /\ \A b \in BagToSet(table') :
                   b.file = f => b.ver = fs[f].mtime /\ b.n = fs[f].n]_vars

\* ------------------------------------- sessions of files in several directories
\* log files under the two source roots: the directories from the root down,
\* and the file name as its name and the dot-suffixes that follow it
SourcePaths ==
  {[dirs |-> <<"projects", "-p">>, name |-> <<"s", ".jsonl">>],
   [dirs |-> <<"projects", "-q">>, name |-> <<"s", ".jsonl">>],
   [dirs |-> <<"projects", "-p">>, name |-> <<"t", ".jsonl">>],
   [dirs |-> <<"sessions", "2026">>, name |-> <<"s", ".jsonl">>]}

\* const sessionId = path.basename(filePath, ".jsonl"): the file name
\* without the directories and without a final ".jsonl"
PathSessionId(p) ==
  IF Len(p.name) > 1 /\ p.name[Len(p.name)] = ".jsonl"
  THEN SubSeq(p.name, 1, Len(p.name) - 1)
  ELSE p.name

\* the records a table holds that were built from the file at path p
RecordsOf(t, p) == [b \in {x \in DOMAIN t : x.file = p} |-> t[b]]

PathsInit ==
  /\ DbInit /\ \A f \in Files : fs[f].n = 0
  /\ call = NoCall
  /\ watcher = FALSE /\ debounceTimers = NoTimers /\ armed = {}
  /\ nextId = 1 /\ inflight = NoTimers /\ watch = WatchHistory
  /\ arg = NoArg
  /\ res = [fn |-> "reindex", pc |-> "idle", exists |-> FALSE,
            table |-> EmptyBag, before |-> EmptyBag, done |-> FALSE]

\* parseConversation, chunkConversation and embed of one file with
\* qualifying messages, up to `const tables = await this.db.tableNames()`
PathParse ==
  /\ res.fn = "reindex" /\ res.pc = "idle"
  /\ \E p \in SourcePaths, v \in 1..MaxMtime, k \in 1..MaxChunks :
       arg' = [fn |-> "reindex",
               batch |-> [file |-> p, sessionId |-> PathSessionId(p),
                          ver |-> v, n |-> k]]
  /\ res' = [res EXCEPT !.pc = IF res.exists THEN "delete" ELSE "create",
                        !.before = res.table, !.done = FALSE]
  /\ UNCHANGED <<db, call, loop>>

\* await this.table.delete(`"sessionId" = '${conversation.sessionId}'`)
PathDelete ==
  /\ res.fn = "reindex" /\ res.pc = "delete"
  /\ res' = [res EXCEPT !.pc = "add",
                        !.table = DeleteSession(@, arg.batch.sessionId)]
  /\ UNCHANGED <<db, call, arg, loop>>

\* await this.table.add(records)
PathAdd ==
  /\ res.fn = "reindex" /\ res.pc = "add"
  /\ res' = [res EXCEPT !.pc = "idle", !.done = TRUE,
                        !.table = @ (+) SetToBag({arg.batch})]
  /\ UNCHANGED <<db, call, arg, loop>>

\* this.table = await this.db.createTable(TABLE_NAME, records)
PathCreate ==
  /\ res.fn = "reindex" /\ res.pc = "create"
  /\ res' = [res EXCEPT !.pc = "idle", !.done = TRUE, !.exists = TRUE,
                        !.table = SetToBag({arg.batch})]
  /\ UNCHANGED <<db, call, arg, loop>>

PathsNext == PathParse \/ PathDelete \/ PathAdd \/ PathCreate

SpecPaths == PathsInit /\ [][PathsNext]_vars

\* C30: when the reindex of a file F has completed, the records built from
\* every other path G are the ones the table held before the reindex began,
\* whatever the directories and base names of F and G.
C30_OtherFilesUntouched ==
  (res.fn = "reindex" /\ res.done) =>
     \A g \in SourcePaths \ {arg.batch.file} :
        RecordsOf(res.table, g) = RecordsOf(res.before, g)

\* what does hold: the records of every other session id are untouched
OtherSessionsUntouched ==
  (res.fn = "reindex" /\ res.done) =>
     \A g \in SourcePaths :
        PathSessionId(g) # arg.batch.sessionId =>
           RecordsOf(res.table, g) = RecordsOf(res.before, g)

\* --------------------------------------------------- parsing a log file
MaxLines == 3

\* textContent.length < 20
MinTextLength == 20

Undefined == "undefined"

\* textContent.startsWith("<command-name>"), startsWith("<local-command")
CommandPrefixes ==
  {<<"<", "c", "o", "m", "m", "a", "n", "d", "-", "n", "a", "m", "e", ">">>,
   <<"<", "l", "o", "c", "a", "l", "-", "c", "o", "m", "m", "a", "n", "d">>}

\* the prefixes of isCodexBoilerplateMessage
BoilerplatePrefixes ==
  {<<"#", " ", "A", "G", "E", "N", "T", "S", ".", "m", "d", " ", "i", "n",
     "s", "t", "r", "u", "c", "t", "i", "o", "n", "s", " ", "f", "o", "r", " ">>,
   <<"<", "e", "n", "v", "i", "r", "o", "n", "m", "e", "n", "t", "_",
     "c", "o", "n", "t", "e", "x", "t", ">">>,
   <<"<", "p", "e", "r", "m", "i", "s", "s", "i", "o", "n", "s", " ", "i",
     "n", "s", "t", "r", "u", "c", "t", "i", "o", "n", "s", ">">>,
   <<"<", "c", "o", "l", "l", "a", "b", "o", "r", "a", "t", "i", "o", "n",
     "_", "m", "o", "d", "e", ">">>,
   <<"<", "u", "s", "e", "r", "_", "i", "n", "s", "t", "r", "u", "c", "t",
     "i", "o", "n", "s", ">">>}

\* String.prototype.startsWith
StartsWith(str, prefix) ==
  Len(str) >= Len(prefix) /\ SubSeq(str, 1, Len(prefix)) = prefix

\* .map((block) => block.text).join("\n")
RECURSIVE JoinTexts(_)
JoinTexts(blocks) ==
  IF blocks = <<>> THEN <<>>
  ELSE IF Len(blocks) = 1 THEN blocks[1].text
  ELSE blocks[1].text \o <<"\n">> \o JoinTexts(Tail(blocks))

ExtractTextContent(content) ==
  IF content.t = "string" THEN Trim(content.s)
  ELSE IF content.t = "array"
  THEN Trim(JoinTexts(SelectSeq(content.blocks,
              LAMBDA block : /\ block.isString
                             /\ block.type \in {"text", "input_text", "output_text"})))
  ELSE <<>>

IsCodexBoilerplateMessage(text) ==
  \E prefix \in BoilerplatePrefixes : StartsWith(Trim(text), prefix)

\* the lines a file of either kind is made of. A line is blank ("blank"),
\* text that is not JSON ("garbage"), or the text of a value: null, a number,
\* or an object with the fields the parsers read (absent fields are
\* Undefined, an absent timestamp is the empty sequence). A content is
\* absent, a string, or an array of blocks with or without a text. The
\* texts are of exactly the minimum length, one short of it, padded with
\* white space, a slash command, a local command output, Codex boilerplate.
Lines(codex) ==
  LET long == [k \in 1..MinTextLength |-> "x"]
      short == [k \in 1..(MinTextLength - 1) |-> "y"]
      padded == <<" ">> \o [k \in 1..MinTextLength |-> "z"] \o <<"\n">>
      command == <<"<", "c", "o", "m", "m", "a", "n", "d", "-", "n", "a", "m",
                   "e", ">", "/", "c", "l", "e", "a", "r">>
      local == <<"<", "l", "o", "c", "a", "l", "-", "c", "o", "m", "m", "a",
                 "n", "d", "-", "s", "t", "d", "o", "u", "t", ">">>
      boilerplate == <<"<", "u", "s", "e", "r", "_", "i", "n", "s", "t", "r",
                       "u", "c", "t", "i", "o", "n", "s", ">", "\n", "b", "e",
                       " ", "b", "r", "i", "e", "f">>
      Content(t, str, blocks) == [t |-> t, s |-> str, blocks |-> blocks]
      String(str) == Content("string", str, <<>>)
      NoContent == Content(Undefined, <<>>, <<>>)
      Block(type, isString, text) == [type |-> type, isString |-> isString, text |-> text]
      Payload(type, role, content, cwd) ==
        [type |-> type, role |-> role, content |-> content, cwd |-> cwd]
      NoPayload == Payload(Undefined, Undefined, NoContent, Undefined)
      JsonNull ==
        [kind |-> "null", isMeta |-> FALSE, type |-> Undefined, content |-> NoContent,
         timestamp |-> <<>>, payload |-> NoPayload]
      ClaudeObject(isMeta, type, content, timestamp) ==
        [kind |-> "object", isMeta |-> isMeta, type |-> type, content |-> content,
         timestamp |-> timestamp, payload |-> NoPayload]
      CodexObject(type, payload, timestamp) ==
        [kind |-> "object", isMeta |-> FALSE, type |-> type, content |-> NoContent,
         timestamp |-> timestamp, payload |-> payload]
      RawLine(raw) == [raw |-> raw, value |-> JsonNull]
      JsonLine(value) == [raw |-> "json", value |-> value]
  IN {RawLine("blank"), RawLine("garbage"), JsonLine(JsonNull)} \cup
     IF ~codex
     THEN {JsonLine([JsonNull EXCEPT !.kind = "number"]),
           JsonLine(ClaudeObject(FALSE, "user", String(long), <<1>>)),
           JsonLine(ClaudeObject(FALSE, "assistant", String(padded), <<2>>)),
           JsonLine(ClaudeObject(FALSE, "user", String(long), <<>>)),
           JsonLine(ClaudeObject(FALSE, "user", String(short), <<1>>)),
           JsonLine(ClaudeObject(TRUE, "user", String(long), <<1>>)),
           JsonLine(ClaudeObject(FALSE, "summary", NoContent, <<>>)),
           JsonLine(ClaudeObject(FALSE, "user", String(command), <<1>>)),
           JsonLine(ClaudeObject(FALSE, "user", String(local), <<1>>)),
           JsonLine(ClaudeObject(FALSE, "assistant",
                      Content("array", <<>>,
                              <<Block("text", TRUE, [k \in 1..10 |-> "v"]),
                                Block("tool_use", FALSE, <<>>),
                                Block("text", TRUE, [k \in 1..9 |-> "w"])>>), <<2>>))}
     ELSE {JsonLine(CodexObject("session_meta",
                      Payload(Undefined, Undefined, NoContent, "/w"), <<1>>)),
           JsonLine(CodexObject("session_meta", NoPayload, <<1>>)),
           JsonLine(CodexObject("event_msg",
                      Payload("message", "user", String(long), Undefined), <<1>>)),
           JsonLine(CodexObject("response_item",
                      Payload("function_call", Undefined, NoContent, Undefined), <<1>>)),
           JsonLine(CodexObject("response_item",
                      Payload("message", "developer", String(long), Undefined), <<1>>)),
           JsonLine(CodexObject("response_item",
                      Payload("message", "user", String(long), Undefined), <<1>>)),
           JsonLine(CodexObject("response_item",
                      Payload("message", "user", String(boilerplate), Undefined), <<1>>)),
           JsonLine(CodexObject("response_item",
                      Payload("message", "user", String(short), Undefined), <<2>>)),
           JsonLine(CodexObject("response_item",
                      Payload("message", "assistant",
                              Content("array", <<>>, <<Block("output_text", TRUE, padded)>>),
                              Undefined), <<>>))}

\* JSON.parse(line): a value, or a SyntaxError
JsonParse(line) == [ok |-> line.raw = "json", value |-> line.value]

\* the outcome of the try body for one line: "throw" (the exception is
\* caught), "continue" (the line is skipped, the project possibly set), or
\* "push" (a message is pushed)
Outcome(kind, message, project) == [kind |-> kind, message |-> message, project |-> project]
Skipped == Outcome("continue", <<>>, Undefined)

\* the try body of parseClaudeConversation for one non-blank line
ClaudeLine(line, now) ==
  LET parsed == JsonParse(line)
      obj == parsed.value
      textContent == ExtractTextContent(obj.content)
  IN IF ~parsed.ok \/ obj.kind = "null" THEN Outcome("throw", <<>>, Undefined)
     ELSE IF obj.isMeta THEN Skipped
     ELSE IF obj.type = "file-history-snapshot" THEN Skipped
     ELSE IF obj.type = "summary" THEN Skipped
     ELSE IF obj.type # "user" /\ obj.type # "assistant" THEN Skipped
     ELSE IF textContent = <<>> THEN Skipped
     ELSE IF \E prefix \in CommandPrefixes : StartsWith(textContent, prefix) THEN Skipped
     ELSE IF Len(textContent) < MinTextLength THEN Skipped
     ELSE Outcome("push",
                  <<[role |-> obj.type, content |-> textContent,
                     timestamp |-> IF obj.timestamp # <<>>
                                   THEN obj.timestamp[1] ELSE now]>>,
                  Undefined)

\* the try body of parseCodexConversation for one non-blank line
CodexLine(line, now) ==
  LET parsed == JsonParse(line)
      obj == parsed.value
      role == obj.payload.role
      textContent == ExtractTextContent(obj.payload.content)
  IN IF ~parsed.ok \/ obj.kind = "null" THEN Outcome("throw", <<>>, Undefined)
     ELSE IF obj.type = "session_meta"
     THEN IF obj.payload.cwd # Undefined /\ obj.payload.cwd # ""
          THEN Outcome("continue", <<>>, obj.payload.cwd) ELSE Skipped
     ELSE IF obj.type # "response_item" THEN Skipped
     ELSE IF obj.payload.type # "message" THEN Skipped
     ELSE IF role # "user" /\ role # "assistant" THEN Skipped
     ELSE IF textContent = <<>> THEN Skipped
     ELSE IF IsCodexBoilerplateMessage(textContent) THEN Skipped
     ELSE IF Len(textContent) < MinTextLength THEN Skipped
     ELSE Outcome("push",
                  <<[role |-> role, content |-> textContent,
                     timestamp |-> IF obj.timestamp # <<>>
                                   THEN obj.timestamp[1] ELSE now]>>,
                  Undefined)

TryLine(codex, line, now) ==
  IF codex THEN CodexLine(line, now) ELSE ClaudeLine(line, now)

\* catch { continue }: the state of the parse after an exception in a line
CatchLineRethrows(acc) == [acc EXCEPT !.threw = TRUE]

CatchLine(acc) == acc

\* for await (const line of rl) { if (!line.trim()) continue; try ... }
RECURSIVE ParseLoop(_, _, _, _)
ParseLoop(codex, lines, now, acc) ==
  IF lines = <<>> \/ acc.threw THEN acc
  ELSE LET line == Head(lines)
           out == TryLine(codex, line, now)
       IN IF line.raw = "blank" THEN ParseLoop(codex, Tail(lines), now, acc)
          ELSE IF out.kind = "throw"
          THEN ParseLoop(codex, Tail(lines), now, CatchLine(acc))
          ELSE ParseLoop(codex, Tail(lines), now,
                 [acc EXCEPT !.messages = @ \o out.message,
                             !.project = IF out.project # Undefined
                                         THEN out.project ELSE @])

\* parseClaudeConversation and parseCodexConversation on the lines of a
\* file: an exception, null, or the conversation
ParseLines(codex, lines, now) ==
  LET acc == ParseLoop(codex, lines, now,
                [threw |-> FALSE, messages |-> <<>>,
                 project |-> IF codex THEN "codex" ELSE "p"])
  IN [outcome |-> IF acc.threw THEN "threw" ELSE "returned",
      isNull |-> acc.messages = <<>>,
      project |-> acc.project, messages |-> acc.messages]

ParseInit ==
  /\ DbInit /\ \A f \in Files : fs[f].n = 0
  /\ call = NoCall
  /\ watcher = FALSE /\ debounceTimers = NoTimers /\ armed = {}
  /\ nextId = 1 /\ inflight = NoTimers /\ watch = WatchHistory
  /\ \E codex \in BOOLEAN :
       \E lines \in UNION {[1..k -> Lines(codex)] : k \in 0..MaxLines} :
          arg = [fn |-> "parseConversation", codex |-> codex, lines |-> lines]
  /\ res = NoRes

\* conversation = await parseConversation(filePath)
ParseApply ==
  /\ arg.fn = "parseConversation" /\ res = NoRes
  /\ \E now \in Clock :
       res' = [fn |-> "parseConversation", calls |-> 1, now |-> now,
               out |-> ParseLines(arg.codex, arg.lines, now),
               clean |-> ParseLines(arg.codex, <<>>, now)]
  /\ UNCHANGED <<db, call, arg, loop>>

\* the same file without the lines that JSON.parse rejects is parsed at the
\* same clock reading
ParseClean ==
  /\ res.fn = "parseConversation" /\ res.calls = 1
  /\ LET wellFormed == SelectSeq(arg.lines, LAMBDA line : JsonParse(line).ok)
     IN res' = [res EXCEPT !.calls = 2,
                           !.clean = ParseLines(arg.codex, wellFormed, res.now)]
  /\ UNCHANGED <<db, call, arg, loop>>

ParseNext == ParseApply \/ ParseClean

SpecParse == ParseInit /\ [][ParseNext]_vars

\* C28: parsing never throws; the messages of a file are those of the same
\* file with the lines that are not valid JSON removed, and they are the
\* messages of the valid lines that qualify, one each, in file order.
C28_MalformedLinesSkipped ==
  res.fn = "parseConversation" =>
    /\ res.out.outcome = "returned"
    /\ LET q == {i \in 1..Len(arg.lines) :
                   /\ JsonParse(arg.lines[i]).ok
                   /\ TryLine(arg.codex, arg.lines[i], res.now).kind = "push"}
       IN /\ Len(res.out.messages) = Cardinality(q)
          /\ \A k \in 1..Cardinality(q) :
               <<res.out.messages[k]>> =
                  TryLine(arg.codex, arg.lines[Kth(q, k)], res.now).message
    /\ res.calls = 2 => /\ res.clean.outcome = "returned"
                        /\ res.clean.messages = res.out.messages
                        /\ res.clean.isNull = res.out.isNull

\* C28 witness: a file with a malformed line between two lines that
\* qualify, parsed both ways, yields both messages
C28_Witness ==
  /\ res.fn = "parseConversation" /\ res.calls = 2
  /\ Len(arg.lines) = 3 /\ arg.lines[2].raw = "garbage"
  /\ Len(res.out.messages) = 2
  /\ res.out.messages[1] # res.out.messages[2]

\* ---------------------------------------------------- checkpoints and runs
\* C31: when no run is in flight, a file whose session holds records built
\* from content older than the file's current content has no checkpoint or
\* one below the file's modification time.
C31_StaleIsDetectable ==
  (up /\ \A r \in Runs : Free(r)) =>
     \A f \in Files :
        (/\ fs[f].mtime # 0
         /\ \E b \in BagToSet(table) : b.file = f /\ b.ver < fs[f].mtime)
        => indexedFiles[f] < fs[f].mtime

\* what does hold: it is so whenever the session was never written twice
\* over (the table holds at most one batch of the file)
StaleSingleIsDetectable ==
  (up /\ \A r \in Runs : Free(r)) =>
     \A f \in Files :
        (/\ fs[f].mtime # 0 /\ Copies(table, f) <= 1
         /\ \E b \in BagToSet(table) : b.file = f /\ b.ver < fs[f].mtime)
        => indexedFiles[f] < fs[f].mtime

\* C32: while the process runs, no step removes a file's checkpoint entry or
\* lowers its modification time, in this.indexedFiles and in the rows of
\* the metadata table.
C32_CheckpointMonotonic ==
  [][(up /\ up') =>
       \A f \in Files :
          /\ indexedFiles[f] # 0 => indexedFiles'[f] >= indexedFiles[f]
          /\ \A row \in meta :
                row.file = f =>
                   \E new \in meta' : new.file = f /\ new.mtime >= row.mtime]_vars

\* C33: a path never has two indexFile calls of the watcher in flight.
C33_OneWatchRunPerPath == \A p \in WatchPaths : inflight[p] <= 1

\* the watch loop on Node's event loop: time passes, the callback of a due
\* timer is run, and an indexFile call settles
SpecWatchLive ==
  /\ SpecWatch
  /\ WF_vars(Tick)
  /\ \A p \in WatchPaths :
        /\ WF_vars(\E t \in armed : t.path = p /\ Fire(t))
        /\ WF_vars(RunReturn(p) \/ RunError(p))

\* C34: the timer entry of a path does not stay for ever, and it goes only
\* by its callback, which removes it and invokes one run for the path, by a
\* further event for the path, or by stop(); every run settles, and settling
\* arms nothing, so the path is idle afterwards.
C34_DebounceLiveness ==
  /\ \A p \in LogPaths : \A i \in 1..MaxWatchEvents :
        (debounceTimers[p] = i) ~> (debounceTimers[p] # i)
  /\ \A p \in LogPaths : \A k \in 1..MaxWatchEvents :
        (inflight[p] = k) ~> (inflight[p] < k)
  /\ [][\A p \in LogPaths :
          /\ (debounceTimers[p] # 0 /\ debounceTimers'[p] # debounceTimers[p]) =>
                \/ /\ debounceTimers'[p] = 0
                   /\ watch'.fires[p] = watch.fires[p] + 1
                   /\ inflight'[p] = inflight[p] + 1
                \/ watch'.rearmed[p] = watch.rearmed[p] + 1
                \/ watch'.stops = watch.stops + 1
          /\ watch'.fires[p] # watch.fires[p] =>
                /\ watch'.fires[p] = watch.fires[p] + 1
                /\ debounceTimers[p] # 0 /\ debounceTimers'[p] = 0
          /\ inflight'[p] < inflight[p] => debounceTimers'[p] = debounceTimers[p]]_vars

\* C34 witness: one event, its timer fired, the run returned, the path is idle
C34_Witness ==
  \E p \in LogPaths :
     /\ watcher /\ watch.stops = 0 /\ watch.merged[p] = 1 /\ watch.rearmed[p] = 0
     /\ watch.fires[p] = 1 /\ inflight[p] = 0 /\ debounceTimers[p] = 0

\* C35: a full run that returns has counted every file it selected once
\* (processed is the length of filesToIndex), a run that selected nothing
\* returns {0, 0} and its steps write neither a table nor the checkpoint
\* map, and added accounts for every record the run wrote: a step that adds
\* or creates n records raises by n the count the run has made or is about
\* to make when its checkpoint save returns, and no other step changes it.
C35_FullRunCounts ==
  [][\A r \in FullRuns :
       LET old == runs[r]
           new == runs'[r]
           saving(rec) == rec.pc \in {"metaNames", "metaDelete", "metaAdd", "metaCreate"}
           accounted(rec) == rec.added + (IF saving(rec) THEN rec.conv.n ELSE 0)
           stores == old.pc \in {"add", "create"} /\ saving(new)
       IN /\ (new # old /\ new.pc = "done" /\ new.outcome = "returned") =>
               /\ new.processed = Len(old.queue)
               /\ old.queue = <<>> =>
                    /\ new.added = 0
                    /\ UNCHANGED <<tableExists, table, metaExists, meta, indexedFiles>>
          /\ (up /\ up' /\ ~Free(r) /\ old.pc # "stat") =>
               /\ new.processed = old.processed + (IF new.i # old.i \/ new.pc = "done" THEN 1 ELSE 0)
               /\ accounted(new) = accounted(old) + (IF stores THEN old.conv.n ELSE 0)
          /\ (up /\ up' /\ new # old /\ old.pc = "stat") =>
               UNCHANGED <<tableExists, table, metaExists, meta, indexedFiles>>]_vars

\* what does hold: the processed count and the run with nothing to index
FullRunCountsAttempts ==
  [][\A r \in FullRuns :
       LET old == runs[r]
           new == runs'[r]
       IN /\ (new # old /\ new.pc = "done" /\ new.outcome = "returned") =>
               /\ new.processed = Len(old.queue)
               /\ old.queue = <<>> =>
                    /\ new.added = 0
                    /\ UNCHANGED <<tableExists, table, metaExists, meta, indexedFiles>>
          /\ (up /\ up' /\ ~Free(r) /\ old.pc # "stat") =>
               new.processed = old.processed + (IF new.i # old.i \/ new.pc = "done" THEN 1 ELSE 0)
          /\ (up /\ up' /\ new # old /\ old.pc = "stat") =>
               UNCHANGED <<tableExists, table, metaExists, meta, indexedFiles>>]_vars

\* ------------------------------------- the table handle and the store step
\* The store step of the three flows on one ConversationDB after init():
\* res.exists is what db.tableNames() reports for the record table,
\* res.handle is this.table # null, res.pc is where each flow stands and
\* res.last how its last step ended.
HandleInit ==
  /\ DbInit /\ \A f \in Files : fs[f].n = 0
  /\ call = NoCall
  /\ watcher = FALSE /\ debounceTimers = NoTimers /\ armed = {}
  /\ nextId = 1 /\ inflight = NoTimers /\ watch = WatchHistory
  /\ arg = NoArg
  /\ \E opened \in BOOLEAN :
       res = [fn |-> "store", exists |-> opened, handle |-> opened,
              pc |-> [r \in Runs |-> "idle"], last |-> [r \in Runs |-> "none"]]

\* const tables = await this.db.tableNames(); tables.includes(TABLE_NAME)
HandleNames(r) ==
  /\ res.fn = "store" /\ res.pc[r] = "idle"
  /\ res' = [res EXCEPT !.pc[r] = IF res.exists THEN "delete" ELSE "create"]
  /\ UNCHANGED <<db, call, arg, loop>>

\* await this.table!.delete(...); await this.table!.add(records)
HandleDelete(r) ==
  /\ res.fn = "store" /\ res.pc[r] = "delete"
  /\ res' = [res EXCEPT !.pc[r] = "idle",
                        !.last[r] = IF res.handle THEN "stored" ELSE "null"]
  /\ UNCHANGED <<db, call, arg, loop>>

\* this.db.createTable(TABLE_NAME, records) takes effect in the store, or
\* rejects because the table exists
HandleCreate(r) ==
  /\ res.fn = "store" /\ res.pc[r] = "create"
  /\ res' = IF res.exists
            THEN [res EXCEPT !.pc[r] = "idle", !.last[r] = "rejected"]
            ELSE [res EXCEPT !.pc[r] = "assign", !.exists = TRUE]
  /\ UNCHANGED <<db, call, arg, loop>>

\* this.table = (the value createTable resolved with)
HandleAssign(r) ==
  /\ res.fn = "store" /\ res.pc[r] = "assign"
  /\ res' = [res EXCEPT !.pc[r] = "idle", !.last[r] = "stored", !.handle = TRUE]
  /\ UNCHANGED <<db, call, arg, loop>>

HandleNext ==
  \E r \in Runs : HandleNames(r) \/ HandleDelete(r) \/ HandleCreate(r) \/ HandleAssign(r)

SpecHandle == HandleInit /\ [][HandleNext]_vars

\* C36: a flow that found the record table in the store and is about to
\* delete and add through this.table finds this.table set.
C36_HandleSetOnDeleteBranch ==
  res.fn = "store" => \A r \in Runs : res.pc[r] = "delete" => res.handle

\* what does hold: it is so when init() found the table, and once the flow
\* that created the table has assigned this.table
HandleSetOnceAssigned ==
  res.fn = "store" =>
     \A r \in Runs :
        (res.pc[r] = "delete" /\ \A q \in Runs : res.pc[q] # "assign") => res.handle

\* C37: in every state of the store, killed processes included, the metadata
\* table exists only if the record table does, and init() gives every file
\* that has a persisted checkpoint row an entry taken from its rows.
C37_PersistedCheckpointsLoaded ==
  /\ [](metaExists => tableExists)
  /\ [][(~up /\ up') =>
          /\ \A row \in meta : indexedFiles'[row.file] # 0
          /\ \A f \in Files :
                indexedFiles'[f] # 0 => [file |-> f, mtime |-> indexedFiles'[f]] \in meta]_vars

\* C37 witness: a process started after a kill holds a checkpoint that no
\* run of its own has set
C37_Witness ==
  /\ crashed /\ up /\ metaExists
  /\ \E f \in Files : indexedFiles[f] # 0
  /\ \A r \in Runs : runs[r].processed = 0 /\ runs[r].pc \in {"idle", "stat", "parse", "done"}

\* ------------------------------------------------- the embedding model load
\* The module state of embeddings.ts and its callers: the three indexing
\* flows call embed, a search calls embedOne.  res.extractor is
\* extractor # null, res.initPromise the state of the promise held by
\* initPromise, res.loads the number of pipeline() calls, res.pc where each
\* caller stands, res.calls how many calls it has made; res.joined and
\* res.reused record that a caller awaited a load it did not start and that
\* a caller found the extractor set.
MaxCalls == 2

EmbedCallers == Runs \cup {"search"}

EmbedInit ==
  /\ DbInit /\ \A f \in Files : fs[f].n = 0
  /\ call = NoCall
  /\ watcher = FALSE /\ debounceTimers = NoTimers /\ armed = {}
  /\ nextId = 1 /\ inflight = NoTimers /\ watch = WatchHistory
  /\ arg = NoArg
  /\ res = [fn |-> "embed", extractor |-> FALSE, initPromise |-> "null", loads |-> 0,
            pc |-> [c \in EmbedCallers |-> "idle"],
            calls |-> [c \in EmbedCallers |-> 0],
            joined |-> FALSE, reused |-> FALSE]

\* embed(texts) or embedOne(text) up to its first suspension: the empty
\* batch returns at once, getExtractor returns the extractor when set,
\* starts the load when initPromise is null, and awaits initPromise
EmbedCallAlwaysLoads(c) ==
  /\ res.fn = "embed" /\ res.pc[c] = "idle" /\ res.calls[c] < MaxCalls
  /\ \E n \in IF c = "search" THEN {1} ELSE {0, 1} :
       LET counted == [res EXCEPT !.calls[c] = @ + 1] IN
       res' = IF n = 0 THEN counted
              ELSE IF res.extractor
                   THEN [counted EXCEPT !.pc[c] = "run", !.reused = TRUE]
                   ELSE [counted EXCEPT !.pc[c] = "await", !.loads = @ + 1,
                                        !.initPromise = "pending"]
  /\ UNCHANGED <<db, call, arg, loop>>

EmbedCall(c) ==
  /\ res.fn = "embed" /\ res.pc[c] = "idle" /\ res.calls[c] < MaxCalls
  /\ \E n \in IF c = "search" THEN {1} ELSE {0, 1} :
       LET counted == [res EXCEPT !.calls[c] = @ + 1] IN
       res' = IF n = 0 THEN counted
              ELSE IF res.extractor
                   THEN [counted EXCEPT !.pc[c] = "run", !.reused = TRUE]
                   ELSE IF res.initPromise = "null"
                        THEN [counted EXCEPT !.pc[c] = "await", !.loads = @ + 1,
                                             !.initPromise = "pending"]
                        ELSE [counted EXCEPT !.pc[c] = "await",
                                             !.joined = @ \/ res.initPromise = "pending"]
  /\ UNCHANGED <<db, call, arg, loop>>

\* the promise of pipeline(...) settles
LoadSettle ==
  /\ res.fn = "embed" /\ res.initPromise = "pending"
  /\ \E outcome \in {"resolved", "rejected"} : res' = [res EXCEPT !.initPromise = outcome]
  /\ UNCHANGED <<db, call, arg, loop>>

\* extractor = await initPromise: the continuation of one caller
EmbedResume(c) ==
  /\ res.fn = "embed" /\ res.pc[c] = "await"
  /\ res.initPromise \in {"resolved", "rejected"}
  /\ res' = IF res.initPromise = "resolved"
            THEN [res EXCEPT !.pc[c] = "run", !.extractor = TRUE]
            ELSE [res EXCEPT !.pc[c] = "idle"]
  /\ UNCHANGED <<db, call, arg, loop>>

\* await ext(...) returns or throws
EmbedRun(c) ==
  /\ res.fn = "embed" /\ res.pc[c] = "run"
  /\ res' = [res EXCEPT !.pc[c] = "idle"]
  /\ UNCHANGED <<db, call, arg, loop>>

EmbedNext ==
  \/ \E c \in EmbedCallers : EmbedCall(c)
  \/ LoadSettle
  \/ \E c \in EmbedCallers : EmbedResume(c)
  \/ \E c \in EmbedCallers : EmbedRun(c)

SpecEmbed == EmbedInit /\ [][EmbedNext]_vars

\* C38: pipeline() is called at most once per process; a caller that arrives
\* while the load is pending awaits that load and starts none, and once the
\* extractor is set no call starts a load.
C38_LoadStartedOnce ==
  /\ [](res.fn = "embed" => res.loads <= 1)
  /\ [][res.fn = "embed" =>
          /\ res'.loads # res.loads =>
               /\ res'.loads = res.loads + 1
               /\ res.initPromise = "null" /\ ~res.extractor
          /\ \A c \in EmbedCallers :
               (res.initPromise = "pending" /\ res.pc[c] = "idle" /\ res'.pc[c] # "idle") =>
                  /\ res'.pc[c] = "await"
                  /\ res'.initPromise = "pending" /\ res'.loads = res.loads
          /\ res.extractor =>
               /\ res'.extractor /\ res'.loads = res.loads
               /\ res'.initPromise = "resolved"]_vars

\* C38 witness: one load served a caller that joined it while it was pending
\* and a caller that came after it succeeded
C38_Witness ==
  /\ res.fn = "embed" /\ res.loads = 1
  /\ res.joined /\ res.reused /\ res.extractor
  /\ \A c \in EmbedCallers : res.pc[c] = "idle"
====
